---- MODULE Spec2Model ----
(***************************************************************************)
(* Pinecone destination connector: the batching engine of batches.go and   *)
(* the writer lifecycle of destination.go.                                 *)
(*                                                                         *)
(* A Destination is configured with a namespace string, Open picks a       *)
(* collectionWriter (singleCollectionWriter or multicollectionWriter),     *)
(* Write hands a record slice to writeRecords, which builds the batches    *)
(* record by record and then issues one bulk call per batch.               *)
(***************************************************************************)
EXTENDS Integers, Sequences, FiniteSets, TLC

VARIABLES
    config,             \* DestinationConfig.Namespace, as a token sequence
    pc,                 \* position of the connector / of the running writeRecords
    colWriter,          \* Destination.colWriter: "nil", "single" or "multi"
    namespaceTemplate,  \* multicollectionWriter.namespaceTemplate != nil
    index,              \* singleCollectionWriter.index (connection id, 0 = none)
    indexes,            \* multicollectionWriter.indexes: namespace -> connection id
    conns,              \* connections opened so far: conns[id] = namespace of connection id
    store,              \* the remote index: namespace -> set of vectors
    store0,             \* the remote index when the running writeRecords started
    records,            \* the records argument of the running writeRecords
    i,                  \* buildBatches: position of the next record of the range loop
    batches,            \* buildBatches: the local variable batches
    ret,                \* what buildBatches returned: [batches, err]
    k,                  \* writeRecords: position of the next batch of the range loop
    written,            \* writeRecords: the local variable written
    calls,              \* bulk calls issued by the running writeRecords: [batch, ok]
    result,             \* what writeRecords returned: [n, err]
    nCalls,             \* number of writeRecords calls started on the writer
    resolved,           \* namespaces parseNamespace has returned so far
    closing,            \* close: the connections the iteration has still to visit
    closed,             \* connection id -> number of Close calls made on it
    closeFailed,        \* close: the connections whose Close returned an error
    closeResult,        \* what close returned: "none" (not returned), "nil" or "err"
    prevRet,            \* what buildBatches returned in the call before a repeated call
    currUpsertBatch,    \* utils.go buildBatches: the local variable currUpsertBatch
    currDeleteBatch,    \* utils.go buildBatches: the local variable currDeleteBatch
    nsLog,              \* the direct calls of parseNamespace made so far: [rec, ns, err]
    procs               \* concurrent addIndexIfMissing calls: goroutine -> [pc, todo, index]

vars == << config, pc, colWriter, namespaceTemplate, index, indexes, conns,
           store, store0, records, i, batches, ret, k, written, calls,
           result, nCalls, resolved, closing, closed, closeFailed, closeResult,
           prevRet, currUpsertBatch, currDeleteBatch, nsLog, procs >>

accVars == << currUpsertBatch, currDeleteBatch >>

auxVars == << nsLog, procs >>

(***************************************************************************)
(* Bounds.                                                                 *)
(***************************************************************************)
\* longest record slice handed to the single writeRecords call of Spec
MaxLen == 3
\* longest record slice handed to a writeRecords call of SpecCalls
MaxCallLen == 2
\* number of writeRecords calls on one writer in SpecCalls
MaxCalls == 2
\* longest record slice handed to the writeRecords call of SpecParse
MaxParseLen == 2
\* longest record slice handed to the buildBatches call of SpecTwoAcc
MaxTwoAccLen == 3
\* most namespaces one of the interleaved calls of SpecConcurrent resolves
MaxConcLen == 2

(***************************************************************************)
(* Records.                                                                *)
(***************************************************************************)
OperationCreate == "create"
OperationUpdate == "update"
OperationDelete == "delete"
OperationSnapshot == "snapshot"
Operations == {OperationCreate, OperationUpdate, OperationDelete, OperationSnapshot}

\* opencdc.MetadataCollection, the key GetCollection reads
MetadataCollection == "opencdc.collection"

\* Metadata without entries, and metadata carrying a collection
NoMetadata == [x \in {} |-> ""]
WithCollection(c) == [x \in {MetadataCollection} |-> c]

\* a string that is not valid UTF-8
InvalidUTF8 == "\\xff"

\* Metadata carrying a collection and one more entry with value v
WithProp(c, v) ==
    [x \in {MetadataCollection, "prop1"} |-> IF x = MetadataCollection THEN c ELSE v]

\* Metadata.GetCollection: the value of the key, or ("", error) when missing
GetCollection(md) ==
    IF MetadataCollection \in DOMAIN md
    THEN [v |-> md[MetadataCollection], err |-> FALSE]
    ELSE [v |-> "", err |-> TRUE]

\* Payload.After: a nil Data, or raw bytes
NilData == "<nil>"
EmptyBytes == ""
JSONv1 == "{\"values\":[1]}"
JSONv2 == "{\"values\":[2]}"
JSONEmptySparse == "{\"values\":[1],\"sparse_values\":{\"indices\":[],\"values\":[]}}"
JSONSparse == "{\"values\":[1],\"sparse_values\":{\"indices\":[3],\"values\":[5]}}"
JSONHalfSparse == "{\"values\":[1],\"sparse_values\":{\"indices\":[3],\"values\":[]}}"
NotJSON == "not json"

Rec(op, key, md, after) == [op |-> op, key |-> key, metadata |-> md, after |-> after]

\* The records the single call of Spec draws its input from: the four
\* operations, two keys, records with and without a collection, two payloads
\* for the same key, a payload that is not JSON and deletes without payload.
Records ==
    { Rec(OperationCreate,   "k1", NoMetadata,          JSONv1),
      Rec(OperationUpdate,   "k1", NoMetadata,          JSONv2),
      Rec(OperationUpdate,   "k1", WithCollection("a"), JSONv2),
      Rec(OperationSnapshot, "k2", NoMetadata,          JSONv2),
      Rec(OperationDelete,   "k1", NoMetadata,          NilData),
      Rec(OperationDelete,   "k1", WithCollection("a"), NotJSON),
      Rec(OperationCreate,   "k2", WithCollection("a"), NotJSON) }

\* The records the calls of SpecCalls draw their input from.
CallRecords ==
    { Rec(OperationCreate, "k1", NoMetadata,          JSONv1),
      Rec(OperationCreate, "k1", WithCollection("a"), JSONv1),
      Rec(OperationDelete, "k1", WithCollection("a"), NilData),
      Rec(OperationUpdate, "k1", WithCollection("b"), NotJSON) }

\* The records the call of SpecParse draws its input from: every kind of
\* payload on records that are parsed, and deletes.
ParseRecords ==
    { Rec(OperationCreate,   "k1", NoMetadata,          NilData),
      Rec(OperationCreate,   "k1", NoMetadata,          EmptyBytes),
      Rec(OperationUpdate,   "k1", WithCollection("a"), NotJSON),
      Rec(OperationCreate,   "k1", NoMetadata,          JSONv1),
      Rec(OperationSnapshot, "k2", WithCollection("a"), JSONEmptySparse),
      Rec(OperationUpdate,   "k2", NoMetadata,          JSONSparse),
      Rec(OperationCreate,   "k2", WithCollection("a"), JSONHalfSparse),
      Rec(OperationDelete,   "k1", NoMetadata,          NilData),
      Rec(OperationDelete,   "k2", WithCollection("a"), EmptyBytes),
      Rec(OperationDelete,   "k1", WithCollection("a"), NotJSON),
      Rec(OperationCreate,   "k1", WithProp("a", "val1"), JSONv1),
      Rec(OperationUpdate,   "k2", WithProp("a", InvalidUTF8), JSONv1) }

SeqsUpTo(S, n) == UNION { [1..m -> S] : m \in 0..n }

(***************************************************************************)
(* Configuration (destination.go).                                         *)
(***************************************************************************)
\* DestinationConfig.Namespace as a sequence of tokens
EmptyNamespace == << >>
StaticNamespace == << "s" >>
TemplateNamespace == << "{{", ".Metadata.GetCollection", "}}" >>
\* a static namespace holding one of the two delimiters
BraceNamespace == << "{{" >>
\* both delimiters, the action left open: a template that does not parse
BadTemplateNamespace == << "}}", "{{" >>
Configs == {EmptyNamespace, StaticNamespace, TemplateNamespace, BraceNamespace,
            BadTemplateNamespace}

\* strings.Contains(s, "{{") && strings.Contains(s, "}}")
isGoTextTemplate(s) ==
    /\ \E a \in 1..Len(s) : s[a] = "{{"
    /\ \E b \in 1..Len(s) : s[b] = "}}"

\* template.Parse: the text ends inside an action, or an action is opened
\* inside an action
RECURSIVE templateLexErr(_, _)
templateLexErr(s, inAction) ==
    IF s = << >> THEN inAction
    ELSE IF Head(s) = "{{" THEN inAction \/ templateLexErr(Tail(s), TRUE)
    ELSE IF Head(s) = "}}" THEN templateLexErr(Tail(s), FALSE)
    ELSE templateLexErr(Tail(s), inAction)

templateParseErr(s) == templateLexErr(s, FALSE)

\* the namespace a static configuration names
ConfigString(s) == IF Len(s) = 1 THEN s[1] ELSE ""

\* template.Execute of the configured template on a record: the method call
\* .Metadata.GetCollection ends the execution with its error when it has one
TemplateExecute(rec) ==
    LET c == GetCollection(rec.metadata)
    IN  IF c.err THEN [ns |-> "", err |-> TRUE] ELSE [ns |-> c.v, err |-> FALSE]

(***************************************************************************)
(* Vectors (destination.go).                                               *)
(***************************************************************************)
vectorID(key) == key

\* the zero value of the struct sparseValues
NoSparseValues == [indices |-> << >>, values |-> << >>]

\* json.Unmarshal of the payload bytes into pineconeVectorValues
jsonUnmarshal(after) ==
    CASE after = JSONv1 ->
            [values |-> << 1 >>, sparse_values |-> NoSparseValues, err |-> FALSE]
      [] after = JSONv2 ->
            [values |-> << 2 >>, sparse_values |-> NoSparseValues, err |-> FALSE]
      [] after = JSONEmptySparse ->
            [values |-> << 1 >>, sparse_values |-> NoSparseValues, err |-> FALSE]
      [] after = JSONSparse ->
            [values |-> << 1 >>,
             sparse_values |-> [indices |-> << 3 >>, values |-> << 5 >>],
             err |-> FALSE]
      [] after = JSONHalfSparse ->
            [values |-> << 1 >>,
             sparse_values |-> [indices |-> << 3 >>, values |-> << >>],
             err |-> FALSE]
      [] OTHER ->
            [values |-> << >>, sparse_values |-> NoSparseValues, err |-> TRUE]

\* *pinecone.SparseValues: the nil pointer, and a pointer to a struct
NilSparseValues == [present |-> FALSE, indices |-> << >>, values |-> << >>]
SparseValues(indices, values) == [present |-> TRUE, indices |-> indices, values |-> values]

\* recordPayload.PineconeSparseValues (utils.go): nil when both arrays are
\* empty
PineconeSparseValues(sv) ==
    IF Len(sv.indices) = 0 /\ Len(sv.values) = 0 THEN NilSparseValues
    ELSE SparseValues(sv.indices, sv.values)

NoVector == [id |-> "", values |-> << >>, sparseValues |-> NilSparseValues,
             metadata |-> NoMetadata]

\* the errors of parsePineconeVector
NoError == "nil"
ParseJSONError == "failed to parse record json"
ProtobufStructError == "error protobuf struct"

\* structpb.NewStruct fails on a key or a string value that is not valid UTF-8
structpbNewStructErr(md) ==
    \E x \in DOMAIN md : x = InvalidUTF8 \/ md[x] = InvalidUTF8

\* parsePineconeVector leaving the collection key out of the vector metadata
parsePineconeVectorDroppingCollection(rec) ==
    IF rec.after = NilData
    THEN [vec |-> NoVector, err |-> FALSE, cause |-> NoError, panic |-> TRUE]
    ELSE LET vectorValues == jsonUnmarshal(rec.after)
         IN  IF vectorValues.err
             THEN [vec |-> NoVector, err |-> TRUE, cause |-> ParseJSONError,
                   panic |-> FALSE]
             ELSE IF structpbNewStructErr(rec.metadata)
             THEN [vec |-> NoVector, err |-> TRUE, cause |-> ProtobufStructError,
                   panic |-> FALSE]
             ELSE [vec |-> [id |-> vectorID(rec.key),
                            values |-> vectorValues.values,
                            sparseValues |->
                                SparseValues(vectorValues.sparse_values.indices,
                                             vectorValues.sparse_values.values),
                            metadata |-> [x \in DOMAIN rec.metadata \ {MetadataCollection}
                                            |-> rec.metadata[x]]],
                   err |-> FALSE, cause |-> NoError, panic |-> FALSE]

\* parsePineconeVector of destination.go: id from the key, values and sparse
\* values from the payload, every metadata entry copied. rec.Payload.After
\* .Bytes() is called first: on a nil After it is a method call on a nil
\* interface, a run-time panic. The sparse values are always a pointer to a
\* struct.
parsePineconeVector(rec) ==
    IF rec.after = NilData
    THEN [vec |-> NoVector, err |-> FALSE, cause |-> NoError, panic |-> TRUE]
    ELSE LET vectorValues == jsonUnmarshal(rec.after)
         IN  IF vectorValues.err
             THEN [vec |-> NoVector, err |-> TRUE, cause |-> ParseJSONError,
                   panic |-> FALSE]
             ELSE IF structpbNewStructErr(rec.metadata)
             THEN [vec |-> NoVector, err |-> TRUE, cause |-> ProtobufStructError,
                   panic |-> FALSE]
             ELSE [vec |-> [id |-> vectorID(rec.key),
                            values |-> vectorValues.values,
                            sparseValues |->
                                SparseValues(vectorValues.sparse_values.indices,
                                             vectorValues.sparse_values.values),
                            metadata |-> [x \in DOMAIN rec.metadata |-> rec.metadata[x]]],
                   err |-> FALSE, cause |-> NoError, panic |-> FALSE]

(***************************************************************************)
(* Batches (batches.go).                                                   *)
(***************************************************************************)
upsertBatch(namespace) == [kind |-> "upsert", namespace |-> namespace, vectors |-> << >>, ids |-> << >>]
deleteBatch(namespace) == [kind |-> "delete", namespace |-> namespace, vectors |-> << >>, ids |-> << >>]

getNamespace(b) == b.namespace

\* upsertBatch.isOperationCompatible accepting only the create operation
upsertIsOperationCompatibleCreateOnly(rec) == rec.op = OperationCreate

upsertIsOperationCompatible(rec) ==
    CASE rec.op \in {OperationCreate, OperationUpdate, OperationSnapshot} -> TRUE
      [] rec.op = OperationDelete -> FALSE
      [] OTHER -> FALSE

\* deleteBatch.isOperationCompatible accepting every operation
deleteIsOperationCompatibleWithAll(rec) == rec.op \in Operations

deleteIsOperationCompatible(rec) == rec.op = OperationDelete

isOperationCompatible(b, rec) ==
    IF b.kind = "upsert" THEN upsertIsOperationCompatible(rec)
    ELSE deleteIsOperationCompatible(rec)

\* upsertBatch.addRecord putting the vector in front of the batch
upsertAddRecordInFront(b, rec) ==
    LET p == parsePineconeVector(rec)
    IN  IF p.panic \/ p.err THEN [batch |-> b, err |-> p.err, panic |-> p.panic]
        ELSE [batch |-> [b EXCEPT !.vectors = << p.vec >> \o @],
              err |-> FALSE, panic |-> FALSE]

\* upsertBatch.addRecord
upsertAddRecord(b, rec) ==
    LET p == parsePineconeVector(rec)
    IN  IF p.panic \/ p.err THEN [batch |-> b, err |-> p.err, panic |-> p.panic]
        ELSE [batch |-> [b EXCEPT !.vectors = Append(@, p.vec)],
              err |-> FALSE, panic |-> FALSE]

\* deleteBatch.addRecord parsing the payload of the record as the upsert batch
\* does
deleteAddRecordParsingPayload(b, rec) ==
    LET p == parsePineconeVector(rec)
    IN  IF p.panic \/ p.err THEN [batch |-> b, err |-> p.err, panic |-> p.panic]
        ELSE [batch |-> [b EXCEPT !.ids = Append(@, vectorID(rec.key))],
              err |-> FALSE, panic |-> FALSE]

\* deleteBatch.addRecord
deleteAddRecord(b, rec) ==
    [batch |-> [b EXCEPT !.ids = Append(@, vectorID(rec.key))],
     err |-> FALSE, panic |-> FALSE]

addRecord(b, rec) ==
    IF b.kind = "upsert" THEN upsertAddRecord(b, rec) ELSE deleteAddRecord(b, rec)

\* number of elements of a batch
BatchLen(b) == IF b.kind = "upsert" THEN Len(b.vectors) ELSE Len(b.ids)

\* the keys of the elements of a batch, in their order
RECURSIVE VectorIDs(_)
VectorIDs(vs) == IF vs = << >> THEN << >> ELSE << vs[1].id >> \o VectorIDs(Tail(vs))

BatchKeys(b) == IF b.kind = "upsert" THEN VectorIDs(b.vectors) ELSE b.ids

\* upsertBatch.writeBatch returning the number of vectors with the error
upsertWriteBatchCountingFailed(b, ok) ==
    [n |-> Len(b.vectors), err |-> ~ok]

\* the result of a bulk upsert that succeeded (ok) or failed: the store
\* reports one written vector per vector sent
upsertWriteBatch(b, ok) ==
    IF ~ok THEN [n |-> 0, err |-> TRUE] ELSE [n |-> Len(b.vectors), err |-> FALSE]

\* deleteBatch.writeBatch returning no count
deleteWriteBatchCountingNothing(b, ok) ==
    [n |-> 0, err |-> ~ok]

\* the result of a bulk delete that succeeded (ok) or failed
deleteWriteBatch(b, ok) ==
    IF ~ok THEN [n |-> 0, err |-> TRUE] ELSE [n |-> Len(b.ids), err |-> FALSE]

writeBatch(b, ok) ==
    IF b.kind = "upsert" THEN upsertWriteBatch(b, ok) ELSE deleteWriteBatch(b, ok)

(***************************************************************************)
(* The remote index: per namespace a set of vectors with distinct ids.     *)
(***************************************************************************)
StoreNamespaces == {"", "a", "b", "s", "{{"}
EmptyStore == [ns \in StoreNamespaces |-> {}]
OldVector == [id |-> "k1", values |-> << 0 >>, sparseValues |-> NilSparseValues,
              metadata |-> NoMetadata]
OldStore == [ns \in StoreNamespaces |-> {OldVector}]
InitStores == {EmptyStore, OldStore}

Upsert(S, vec) == {v \in S : v.id # vec.id} \cup {vec}
Delete(S, id) == {v \in S : v.id # id}

\* IndexConnection.UpsertVectors: the vectors are written in order
RECURSIVE UpsertVectors(_, _)
UpsertVectors(S, vs) ==
    IF vs = << >> THEN S ELSE UpsertVectors(Upsert(S, vs[1]), Tail(vs))

\* IndexConnection.DeleteVectorsById
RECURSIVE DeleteVectorsById(_, _)
DeleteVectorsById(S, ids) ==
    IF ids = << >> THEN S ELSE DeleteVectorsById(Delete(S, ids[1]), Tail(ids))

\* the store after the bulk call of batch b on a connection to namespace ns
ApplyBatch(st, ns, b) ==
    [st EXCEPT ![ns] = IF b.kind = "upsert" THEN UpsertVectors(@, b.vectors)
                       ELSE DeleteVectorsById(@, b.ids)]

(***************************************************************************)
(* multicollectionWriter (batches.go).                                     *)
(***************************************************************************)
NoIndexes == [x \in {} |-> 0]

\* parseNamespace returning the error of GetCollection when the writer has
\* no template
parseNamespaceFailingOnMissing(tmpl, rec) ==
    IF tmpl THEN TemplateExecute(rec)
    ELSE [ns |-> GetCollection(rec.metadata).v, err |-> GetCollection(rec.metadata).err]

\* parseNamespace answering with a namespace of the registry when the
\* registry has connections but none for the namespace of the record
parseNamespaceFromRegistry(tmpl, rec) ==
    LET p == IF tmpl THEN TemplateExecute(rec)
             ELSE [ns |-> GetCollection(rec.metadata).v, err |-> FALSE]
    IN  IF ~p.err /\ DOMAIN indexes # {} /\ p.ns \notin DOMAIN indexes
        THEN [ns |-> CHOOSE n \in DOMAIN indexes : TRUE, err |-> FALSE]
        ELSE p

\* multicollectionWriter.parseNamespace, for a writer with (tmpl) or without
\* a namespace template
parseNamespace(tmpl, rec) ==
    IF tmpl THEN TemplateExecute(rec)
    ELSE [ns |-> GetCollection(rec.metadata).v, err |-> FALSE]

\* multicollectionWriter.addIndexIfMissing without the Has check
addIndexIfMissingWithoutHas(idx, cs, namespace) ==
    [indexes |-> (namespace :> (Len(cs) + 1)) @@ idx,
     conns |-> Append(cs, namespace)]

\* multicollectionWriter.addIndexIfMissing opening the connection without
\* storing it in the registry
addIndexIfMissingWithoutSet(idx, cs, namespace) ==
    IF namespace \in DOMAIN idx
    THEN [indexes |-> idx, conns |-> cs]
    ELSE [indexes |-> idx, conns |-> Append(cs, namespace)]

\* multicollectionWriter.addIndexIfMissing keeping the connection of the
\* empty namespace under another registry key
addIndexIfMissingUnderDefault(idx, cs, namespace) ==
    LET key == IF namespace = "" THEN "(default)" ELSE namespace
    IN  IF key \in DOMAIN idx
        THEN [indexes |-> idx, conns |-> cs]
        ELSE [indexes |-> (key :> (Len(cs) + 1)) @@ idx,
              conns |-> Append(cs, namespace)]

\* multicollectionWriter.addIndexIfMissing when newIndex succeeds: the
\* registry and the opened connections after the call
addIndexIfMissing(idx, cs, namespace) ==
    IF namespace \in DOMAIN idx
    THEN [indexes |-> idx, conns |-> cs]
    ELSE [indexes |-> (namespace :> (Len(cs) + 1)) @@ idx,
          conns |-> Append(cs, namespace)]

\* addNewBatch of the multicollection writer making an upsert batch only
\* for the create operation
multiAddNewBatchUpsertingCreatesOnly(bs, rec, namespace) ==
    LET batch == IF rec.op = OperationCreate THEN upsertBatch(namespace)
                 ELSE deleteBatch(namespace)
        r == addRecord(batch, rec)
    IN  IF r.panic \/ r.err THEN [batches |-> bs, err |-> r.err, panic |-> r.panic]
        ELSE [batches |-> Append(bs, r.batch), err |-> FALSE, panic |-> FALSE]

\* multicollectionWriter.buildBatches: the closure addNewBatch
multiAddNewBatch(bs, rec, namespace) ==
    LET batch == IF rec.op = OperationDelete THEN deleteBatch(namespace)
                 ELSE upsertBatch(namespace)
        r == addRecord(batch, rec)
    IN  IF r.panic \/ r.err THEN [batches |-> bs, err |-> r.err, panic |-> r.panic]
        ELSE [batches |-> Append(bs, r.batch), err |-> FALSE, panic |-> FALSE]

\* addToPreviousBatch of the multicollection writer without the namespace
\* comparison
multiAddToPreviousBatchAnyNamespace(bs, rec, namespace) ==
    LET prevBatch == bs[Len(bs)]
    IN  IF isOperationCompatible(prevBatch, rec)
        THEN LET r == addRecord(prevBatch, rec)
             IN  [batches |-> [bs EXCEPT ![Len(bs)] = r.batch],
                  err |-> r.err, panic |-> r.panic]
        ELSE multiAddNewBatch(bs, rec, namespace)

\* multicollectionWriter.buildBatches: the closure addToPreviousBatch
multiAddToPreviousBatch(bs, rec, namespace) ==
    LET prevBatch == bs[Len(bs)]
    IN  IF getNamespace(prevBatch) # namespace
        THEN multiAddNewBatch(bs, rec, namespace)
        ELSE IF isOperationCompatible(prevBatch, rec)
        THEN LET r == addRecord(prevBatch, rec)
             IN  [batches |-> [bs EXCEPT ![Len(bs)] = r.batch],
                  err |-> r.err, panic |-> r.panic]
        ELSE multiAddNewBatch(bs, rec, namespace)

\* multicollectionWriter.buildBatches: the body of the range loop after the
\* namespace is resolved and its index is present
multiAdd(bs, rec, namespace) ==
    IF Len(bs) = 0 THEN multiAddNewBatch(bs, rec, namespace)
    ELSE multiAddToPreviousBatch(bs, rec, namespace)

(***************************************************************************)
(* singleCollectionWriter (batches.go).                                    *)
(***************************************************************************)
\* addNewBatch of the single collection writer putting the new batch in front
\* of the list
singleAddNewBatchInFront(bs, rec) ==
    LET batch == IF rec.op = OperationDelete THEN deleteBatch("")
                 ELSE upsertBatch("")
        r == addRecord(batch, rec)
    IN  IF r.panic \/ r.err THEN [batches |-> bs, err |-> r.err, panic |-> r.panic]
        ELSE [batches |-> << r.batch >> \o bs, err |-> FALSE, panic |-> FALSE]

\* singleCollectionWriter.buildBatches: the closure addNewBatch
singleAddNewBatch(bs, rec) ==
    LET batch == IF rec.op = OperationDelete THEN deleteBatch("")
                 ELSE upsertBatch("")
        r == addRecord(batch, rec)
    IN  IF r.panic \/ r.err THEN [batches |-> bs, err |-> r.err, panic |-> r.panic]
        ELSE [batches |-> Append(bs, r.batch), err |-> FALSE, panic |-> FALSE]

\* addToPreviousBatch of the single collection writer never using the
\* previous batch
singleAddToPreviousBatchNeverMerging(bs, rec) == singleAddNewBatch(bs, rec)

\* singleCollectionWriter.buildBatches: the closure addToPreviousBatch
singleAddToPreviousBatch(bs, rec) ==
    LET prevBatch == bs[Len(bs)]
    IN  IF isOperationCompatible(prevBatch, rec)
        THEN LET r == addRecord(prevBatch, rec)
             IN  [batches |-> [bs EXCEPT ![Len(bs)] = r.batch],
                  err |-> r.err, panic |-> r.panic]
        ELSE singleAddNewBatch(bs, rec)

\* the single collection writer batching by the collection of the record's
\* metadata, as the multicollection writer does
singleAddPerCollection(bs, rec) == multiAdd(bs, rec, GetCollection(rec.metadata).v)

\* singleCollectionWriter.buildBatches: the body of the range loop
singleAdd(bs, rec) ==
    IF Len(bs) = 0 THEN singleAddNewBatch(bs, rec)
    ELSE singleAddToPreviousBatch(bs, rec)

(***************************************************************************)
(* The connector as a state machine.                                       *)
(***************************************************************************)
NoResult == [n |-> 0, err |-> "nil"]
NoRet == [batches |-> << >>, err |-> "nil"]

Init ==
    /\ config \in Configs
    /\ pc = "new"
    /\ colWriter = "nil"
    /\ namespaceTemplate = FALSE
    /\ index = 0
    /\ indexes = NoIndexes
    /\ conns = << >>
    /\ store \in InitStores
    /\ store0 = store
    /\ records = << >>
    /\ i = 1
    /\ batches = << >>
    /\ ret = NoRet
    /\ k = 1
    /\ written = 0
    /\ calls = << >>
    /\ result = NoResult
    /\ nCalls = 0
    /\ resolved = {}
    /\ closing = {}
    /\ closed = << >>
    /\ closeFailed = {}
    /\ closeResult = "none"
    /\ prevRet = NoRet
    /\ currUpsertBatch = upsertBatch("")
    /\ currDeleteBatch = deleteBatch("")
    /\ nsLog = {}
    /\ procs = << >>

closeVars == << closing, closed, closeFailed, closeResult >>

callVars == << records, i, batches, ret, k, written, calls, result, nCalls >>

\* Destination.Open opening a connection in every case of the switch
OpenConnectingAlways ==
    /\ pc = "new"
    /\ isGoTextTemplate(config) => ~templateParseErr(config)
    /\ pc' = "idle"
    /\ conns' = Append(conns, ConfigString(config))
    /\ index' = Len(conns) + 1
    /\ colWriter' = IF isGoTextTemplate(config) \/ config = EmptyNamespace
                    THEN "multi" ELSE "single"
    /\ namespaceTemplate' = isGoTextTemplate(config)
    /\ UNCHANGED << config, indexes, store, store0, resolved >>
    /\ UNCHANGED << callVars, closeVars, prevRet, accVars, auxVars >>

\* Destination.Open: the three cases of the switch, template.Parse and
\* newIndex succeeding
Open ==
    /\ pc = "new"
    /\ isGoTextTemplate(config) => ~templateParseErr(config)
    /\ pc' = "idle"
    /\ IF isGoTextTemplate(config)
       THEN /\ colWriter' = "multi"
            /\ namespaceTemplate' = TRUE
            /\ UNCHANGED << index, conns >>
       ELSE IF config = EmptyNamespace
       THEN /\ colWriter' = "multi"
            /\ namespaceTemplate' = FALSE
            /\ UNCHANGED << index, conns >>
       ELSE /\ colWriter' = "single"
            /\ conns' = Append(conns, ConfigString(config))
            /\ index' = Len(conns) + 1
            /\ UNCHANGED namespaceTemplate
    /\ UNCHANGED << config, indexes, store, store0, resolved >>
    /\ UNCHANGED << callVars, closeVars, prevRet, accVars, auxVars >>

\* Destination.Open: template.Parse fails in the first case
OpenTemplateErr ==
    /\ pc = "new"
    /\ isGoTextTemplate(config)
    /\ templateParseErr(config)
    /\ pc' = "openFailed"
    /\ UNCHANGED << config, colWriter, namespaceTemplate, index, indexes, conns,
                    store, store0, resolved >>
    /\ UNCHANGED << callVars, closeVars, prevRet, accVars, auxVars >>

\* Destination.Open: newIndex fails in the default case
OpenFail ==
    /\ pc = "new"
    /\ ~isGoTextTemplate(config)
    /\ config # EmptyNamespace
    /\ pc' = "openFailed"
    /\ UNCHANGED << config, colWriter, namespaceTemplate, index, indexes, conns,
                    store, store0, resolved >>
    /\ UNCHANGED << callVars, closeVars, prevRet, accVars, auxVars >>

\* Destination.Write: writeRecords is entered with a slice of records of U
StartWrite(U, L) ==
    /\ pc \in {"idle", "done"}
    /\ records' \in SeqsUpTo(U, L)
    /\ pc' = "build"
    /\ i' = 1
    /\ batches' = << >>
    /\ ret' = NoRet
    /\ k' = 1
    /\ written' = 0
    /\ calls' = << >>
    /\ result' = NoResult
    /\ store0' = store
    /\ nCalls' = nCalls + 1
    /\ UNCHANGED << config, colWriter, namespaceTemplate, index, indexes, conns,
                    store, resolved, closeVars, prevRet, accVars, auxVars >>

\* the one writeRecords call of Spec
Write == nCalls = 0 /\ StartWrite(Records, MaxLen)

\* the one writeRecords call of SpecParse
WriteParse == nCalls = 0 /\ StartWrite(ParseRecords, MaxParseLen)

\* writeRecords called once more with the records of the first call
WriteAgainKeepingBatches ==
    /\ pc = "done"
    /\ nCalls = 1
    /\ prevRet' = ret
    /\ pc' = "build"
    /\ i' = 1
    /\ ret' = NoRet
    /\ k' = 1
    /\ written' = 0
    /\ calls' = << >>
    /\ result' = NoResult
    /\ store0' = store
    /\ nCalls' = nCalls + 1
    /\ UNCHANGED << records, batches, config, colWriter, namespaceTemplate, index,
                    indexes, conns, store, resolved, closeVars, accVars, auxVars >>

\* Destination.Write: writeRecords is entered a second time, with the
\* records of the first call
WriteAgain ==
    /\ pc = "done"
    /\ nCalls = 1
    /\ prevRet' = ret
    /\ pc' = "build"
    /\ i' = 1
    /\ batches' = << >>
    /\ ret' = NoRet
    /\ k' = 1
    /\ written' = 0
    /\ calls' = << >>
    /\ result' = NoResult
    /\ store0' = store
    /\ nCalls' = nCalls + 1
    /\ UNCHANGED << records, config, colWriter, namespaceTemplate, index,
                    indexes, conns, store, resolved, closeVars, accVars, auxVars >>

\* Destination.Write: after a successful write of one record that is not a
\* delete, writeRecords is entered with the delete record of its key
WriteDelete ==
    /\ pc = "done"
    /\ nCalls = 1
    /\ result.err = "nil"
    /\ Len(records) = 1
    /\ records[1].op # OperationDelete
    /\ records' = << Rec(OperationDelete, records[1].key, records[1].metadata, NilData) >>
    /\ prevRet' = ret
    /\ pc' = "build"
    /\ i' = 1
    /\ batches' = << >>
    /\ ret' = NoRet
    /\ k' = 1
    /\ written' = 0
    /\ calls' = << >>
    /\ result' = NoResult
    /\ store0' = store
    /\ nCalls' = nCalls + 1
    /\ UNCHANGED << config, colWriter, namespaceTemplate, index,
                    indexes, conns, store, resolved, closeVars, accVars, auxVars >>

\* a writeRecords call of SpecCalls
WriteCall == nCalls < MaxCalls /\ StartWrite(CallRecords, MaxCallLen)

InLoop == pc = "build" /\ i <= Len(records)

frame == << config, colWriter, namespaceTemplate, index, store, store0,
            records, k, written, calls, result, nCalls, closeVars, prevRet, accVars, auxVars >>

\* multicollectionWriter.buildBatches going on with the next record when
\* parseNamespace fails
BuildNamespaceErrSkipping ==
    /\ InLoop
    /\ colWriter = "multi"
    /\ parseNamespace(namespaceTemplate, records[i]).err
    /\ i' = i + 1
    /\ UNCHANGED << frame, indexes, conns, batches, resolved, ret, pc >>

\* multicollectionWriter.buildBatches: parseNamespace fails
BuildNamespaceErr ==
    /\ InLoop
    /\ colWriter = "multi"
    /\ parseNamespace(namespaceTemplate, records[i]).err
    /\ ret' = [batches |-> << >>, err |-> "namespace"]
    /\ pc' = "built"
    /\ UNCHANGED << frame, indexes, conns, i, batches, resolved >>

\* multicollectionWriter.buildBatches: addIndexIfMissing fails (newIndex)
BuildIndexErr ==
    /\ InLoop
    /\ colWriter = "multi"
    /\ LET p == parseNamespace(namespaceTemplate, records[i])
       IN  /\ ~p.err
           /\ p.ns \notin DOMAIN indexes
           /\ resolved' = resolved \cup {p.ns}
    /\ ret' = [batches |-> << >>, err |-> "index"]
    /\ pc' = "built"
    /\ UNCHANGED << frame, indexes, conns, i, batches >>

\* buildBatches (both writers): one iteration of the range loop that adds
\* the record to a batch
BuildRecord ==
    /\ InLoop
    /\ IF colWriter = "multi"
       THEN LET p == parseNamespace(namespaceTemplate, records[i])
                reg == addIndexIfMissing(indexes, conns, p.ns)
                r == multiAdd(batches, records[i], p.ns)
            IN  /\ ~p.err
                /\ ~r.err
                /\ ~r.panic
                /\ indexes' = reg.indexes
                /\ conns' = reg.conns
                /\ batches' = r.batches
                /\ resolved' = resolved \cup {p.ns}
       ELSE LET r == singleAdd(batches, records[i])
            IN  /\ ~r.err
                /\ ~r.panic
                /\ batches' = r.batches
                /\ UNCHANGED << indexes, conns, resolved >>
    /\ i' = i + 1
    /\ UNCHANGED << frame, ret, pc >>

\* buildBatches of both writers returning the batches built so far when
\* addRecord fails
BuildRecordErrReturningBuilt ==
    /\ InLoop
    /\ IF colWriter = "multi"
       THEN LET p == parseNamespace(namespaceTemplate, records[i])
                reg == addIndexIfMissing(indexes, conns, p.ns)
                r == multiAdd(batches, records[i], p.ns)
            IN  /\ ~p.err
                /\ r.err
                /\ indexes' = reg.indexes
                /\ conns' = reg.conns
                /\ resolved' = resolved \cup {p.ns}
       ELSE LET r == singleAdd(batches, records[i])
            IN  /\ r.err
                /\ UNCHANGED << indexes, conns, resolved >>
    /\ ret' = [batches |-> batches, err |-> "record"]
    /\ pc' = "built"
    /\ UNCHANGED << frame, i, batches >>

\* buildBatches (both writers): addRecord fails; the multicollection writer
\* returns nil, the single collection writer returns the batches built so far
BuildRecordErr ==
    /\ InLoop
    /\ IF colWriter = "multi"
       THEN LET p == parseNamespace(namespaceTemplate, records[i])
                reg == addIndexIfMissing(indexes, conns, p.ns)
                r == multiAdd(batches, records[i], p.ns)
            IN  /\ ~p.err
                /\ r.err
                /\ indexes' = reg.indexes
                /\ conns' = reg.conns
                /\ resolved' = resolved \cup {p.ns}
                /\ ret' = [batches |-> << >>, err |-> "record"]
       ELSE LET r == singleAdd(batches, records[i])
            IN  /\ r.err
                /\ ret' = [batches |-> batches, err |-> "record"]
                /\ UNCHANGED << indexes, conns, resolved >>
    /\ pc' = "built"
    /\ UNCHANGED << frame, i, batches >>

\* buildBatches (both writers): addRecord panics in parsePineconeVector; the
\* multicollection writer has added the index of the namespace before
BuildPanic ==
    /\ InLoop
    /\ IF colWriter = "multi"
       THEN LET p == parseNamespace(namespaceTemplate, records[i])
                reg == addIndexIfMissing(indexes, conns, p.ns)
                r == multiAdd(batches, records[i], p.ns)
            IN  /\ ~p.err
                /\ r.panic
                /\ indexes' = reg.indexes
                /\ conns' = reg.conns
                /\ resolved' = resolved \cup {p.ns}
       ELSE LET r == singleAdd(batches, records[i])
            IN  /\ r.panic
                /\ UNCHANGED << indexes, conns, resolved >>
    /\ pc' = "panic"
    /\ UNCHANGED << frame, i, batches, ret >>

\* buildBatches returning an error when it has built no batch
BuildReturnFailingOnEmpty ==
    /\ pc = "build"
    /\ i > Len(records)
    /\ ret' = [batches |-> batches,
               err |-> IF batches = << >> THEN "record" ELSE "nil"]
    /\ pc' = "built"
    /\ UNCHANGED << frame, indexes, conns, i, batches, resolved >>

\* buildBatches (both writers): the range loop is over
BuildReturn ==
    /\ pc = "build"
    /\ i > Len(records)
    /\ ret' = [batches |-> batches, err |-> "nil"]
    /\ pc' = "built"
    /\ UNCHANGED << frame, indexes, conns, i, batches, resolved >>

wframe == << config, colWriter, namespaceTemplate, index, indexes, conns,
             store0, records, i, batches, ret, nCalls, resolved, closeVars, prevRet, accVars, auxVars >>

\* writeRecords returning the number of records batched before the error
ReturnBuildErrCountingBuilt ==
    /\ pc = "built"
    /\ ret.err # "nil"
    /\ result' = [n |-> i - 1, err |-> ret.err]
    /\ pc' = "done"
    /\ UNCHANGED << wframe, store, k, written, calls >>

\* writeRecords going on to write the batches built before the error
ReturnBuildErrWritingBuilt ==
    /\ pc = "built"
    /\ ret.err # "nil"
    /\ ret' = [batches |-> batches, err |-> "nil"]
    /\ UNCHANGED << config, colWriter, namespaceTemplate, index, indexes, conns,
                    store0, records, i, batches, nCalls, resolved, closeVars,
                    prevRet, accVars, auxVars, store, k, written, calls, pc, result >>

\* writeRecords (both writers): buildBatches returned an error
ReturnBuildErr ==
    /\ pc = "built"
    /\ ret.err # "nil"
    /\ result' = [n |-> 0, err |-> ret.err]
    /\ pc' = "done"
    /\ UNCHANGED << wframe, store, k, written, calls >>

InWriteLoop == pc = "built" /\ ret.err = "nil" /\ k <= Len(ret.batches)

\* writeRecords: the registry has the index of the batch to write
IndexFound(b) ==
    IF colWriter = "multi" THEN getNamespace(b) \in DOMAIN indexes ELSE TRUE

\* writeRecords: the connection the batch is written on
batchIndex(b) ==
    IF colWriter = "multi" THEN indexes[getNamespace(b)] ELSE index

\* writeRecords (both writers): the bulk call of batch k succeeds
WriteBatch ==
    /\ InWriteLoop
    /\ IndexFound(ret.batches[k])
    /\ LET batch == ret.batches[k]
           w == writeBatch(batch, TRUE)
       IN  /\ store' = ApplyBatch(store, conns[batchIndex(batch)], batch)
           /\ written' = written + w.n
    /\ calls' = Append(calls, [batch |-> k, ok |-> TRUE])
    /\ k' = k + 1
    /\ UNCHANGED << wframe, pc, result >>

\* writeRecords going on with the next batch after a failed bulk call
WriteBatchErrContinuing ==
    /\ InWriteLoop
    /\ IndexFound(ret.batches[k])
    /\ written' = written + writeBatch(ret.batches[k], FALSE).n
    /\ calls' = Append(calls, [batch |-> k, ok |-> FALSE])
    /\ k' = k + 1
    /\ UNCHANGED << wframe, store, pc, result >>

\* writeRecords returning no error after a failed bulk call
WriteBatchErrSwallowed ==
    /\ InWriteLoop
    /\ IndexFound(ret.batches[k])
    /\ written' = written + writeBatch(ret.batches[k], FALSE).n
    /\ result' = [n |-> written', err |-> "nil"]
    /\ calls' = Append(calls, [batch |-> k, ok |-> FALSE])
    /\ pc' = "done"
    /\ UNCHANGED << wframe, store, k >>

\* writeRecords (both writers): the bulk call of batch k fails
WriteBatchErr ==
    /\ InWriteLoop
    /\ IndexFound(ret.batches[k])
    /\ LET batch == ret.batches[k]
           w == writeBatch(batch, FALSE)
       IN  /\ written' = written + w.n
           /\ result' = [n |-> written + w.n, err |-> "write"]
    /\ calls' = Append(calls, [batch |-> k, ok |-> FALSE])
    /\ pc' = "done"
    /\ UNCHANGED << wframe, store, k >>

\* writeRecords (both writers): every batch is written
WriteReturn ==
    /\ pc = "built"
    /\ ret.err = "nil"
    /\ k > Len(ret.batches)
    /\ result' = [n |-> written, err |-> "nil"]
    /\ pc' = "done"
    /\ UNCHANGED << wframe, store, k, written, calls >>

closeFrame == << config, colWriter, namespaceTemplate, index, indexes, conns,
                store, store0, resolved, callVars, prevRet, accVars, auxVars >>

\* cmap IterBuffered: the connections of the entries of the registry
IterBuffered(idx) == {idx[ns] : ns \in DOMAIN idx}

\* Destination.Teardown on an opened destination: close is entered; the
\* multicollection writer ranges over the registry entries, the single
\* collection writer has its one index
Teardown ==
    /\ pc \in {"idle", "done"}
    /\ pc' = "close"
    /\ closing' = IF colWriter = "multi" THEN IterBuffered(indexes) ELSE {index}
    /\ closed' = [c \in 1..Len(conns) |-> 0]
    /\ closeFailed' = {}
    /\ closeResult' = "none"
    /\ UNCHANGED closeFrame

\* Destination.Teardown on a destination whose Open was not called or
\* failed: colWriter is the nil interface, and the call of its method close
\* is a run-time panic
TeardownNoOpen ==
    /\ pc \in {"new", "openFailed"}
    /\ colWriter = "nil"
    /\ pc' = "panic"
    /\ UNCHANGED << closeFrame, closeVars >>

\* close (both writers): the Close of one connection returns no error
CloseIndex ==
    /\ pc = "close"
    /\ \E c \in closing :
        /\ closing' = closing \ {c}
        /\ closed' = [closed EXCEPT ![c] = @ + 1]
    /\ UNCHANGED << closeFrame, pc, closeFailed, closeResult >>

\* close leaving the loop at the first Close that returns an error
CloseIndexErrStopping ==
    /\ pc = "close"
    /\ \E c \in closing :
        /\ closing' = {}
        /\ closed' = [closed EXCEPT ![c] = @ + 1]
        /\ closeFailed' = closeFailed \cup {c}
    /\ UNCHANGED << closeFrame, pc, closeResult >>

\* close (both writers): the Close of one connection returns an error,
\* which errors.Join adds to the errors collected so far
CloseIndexErr ==
    /\ pc = "close"
    /\ \E c \in closing :
        /\ closing' = closing \ {c}
        /\ closed' = [closed EXCEPT ![c] = @ + 1]
        /\ closeFailed' = closeFailed \cup {c}
    /\ UNCHANGED << closeFrame, pc, closeResult >>

\* close (both writers): every connection was visited; the collected error,
\* if any, is returned wrapped
CloseReturn ==
    /\ pc = "close"
    /\ closing = {}
    /\ closeResult' = IF closeFailed = {} THEN "nil" ELSE "err"
    /\ pc' = "closed"
    /\ UNCHANGED << closeFrame, closing, closed, closeFailed >>

\* one writeRecords call on a freshly opened writer
Next ==
    \/ Open
    \/ OpenFail
    \/ OpenTemplateErr
    \/ Write
    \/ BuildNamespaceErr
    \/ BuildIndexErr
    \/ BuildRecord
    \/ BuildRecordErr
    \/ BuildReturn
    \/ ReturnBuildErr
    \/ WriteBatch
    \/ WriteBatchErr
    \/ WriteReturn

Spec == Init /\ [][Next]_vars

\* several writeRecords calls on one writer, then Teardown
NextCalls ==
    \/ Open
    \/ OpenFail
    \/ OpenTemplateErr
    \/ WriteCall
    \/ BuildNamespaceErr
    \/ BuildIndexErr
    \/ BuildRecord
    \/ BuildRecordErr
    \/ BuildReturn
    \/ ReturnBuildErr
    \/ WriteBatch
    \/ WriteBatchErr
    \/ WriteReturn
    \/ Teardown
    \/ TeardownNoOpen
    \/ CloseIndex
    \/ CloseIndexErr
    \/ CloseReturn

SpecCalls == Init /\ [][NextCalls]_vars

\* one writeRecords call whose records carry every kind of payload
NextParse ==
    \/ Open
    \/ OpenFail
    \/ OpenTemplateErr
    \/ WriteParse
    \/ BuildNamespaceErr
    \/ BuildIndexErr
    \/ BuildRecord
    \/ BuildRecordErr
    \/ BuildPanic
    \/ BuildReturn
    \/ ReturnBuildErr
    \/ WriteBatch
    \/ WriteBatchErr
    \/ WriteReturn

SpecParse == Init /\ [][NextParse]_vars

\* one writeRecords call, then a second one with the same records
NextAgain ==
    \/ Open
    \/ OpenFail
    \/ OpenTemplateErr
    \/ Write
    \/ WriteAgain
    \/ BuildNamespaceErr
    \/ BuildIndexErr
    \/ BuildRecord
    \/ BuildRecordErr
    \/ BuildReturn
    \/ ReturnBuildErr
    \/ WriteBatch
    \/ WriteBatchErr
    \/ WriteReturn

SpecAgain == Init /\ [][NextAgain]_vars

\* one writeRecords call, then the delete of the record it wrote
NextWriteDelete ==
    \/ Open
    \/ OpenFail
    \/ OpenTemplateErr
    \/ Write
    \/ WriteDelete
    \/ BuildNamespaceErr
    \/ BuildIndexErr
    \/ BuildRecord
    \/ BuildRecordErr
    \/ BuildReturn
    \/ ReturnBuildErr
    \/ WriteBatch
    \/ WriteBatchErr
    \/ WriteReturn

SpecWriteDelete == Init /\ [][NextWriteDelete]_vars

(***************************************************************************)
(* The two-accumulator batch builder (utils.go buildBatches, writer.go      *)
(* parseRecords). Its batches carry no namespace: the namespace field of    *)
(* the batch records is left empty.                                         *)
(***************************************************************************)
\* the records handed to the two-accumulator buildBatches
TwoAccRecords ==
    { Rec(OperationCreate,   "k1", NoMetadata, JSONv1),
      Rec(OperationUpdate,   "k2", NoMetadata, JSONSparse),
      Rec(OperationDelete,   "k3", NoMetadata, NilData),
      Rec(OperationDelete,   "k4", NoMetadata, JSONv1),
      Rec(OperationSnapshot, "k5", NoMetadata, NotJSON),
      Rec(OperationCreate,   "k6", NoMetadata, EmptyBytes) }

\* the operations of the first case of the switch of buildBatches (utils.go)
UpsertOperations == {OperationCreate, OperationUpdate, OperationSnapshot}

\* recordID (utils.go)
recordID(key) == key

\* the errors of parseRecordPayload and parsePineconeMetadata (utils.go)
ErrEmptyPayload == "empty payload"
ErrUnmarshal == "error unmarshalling JSON"
ErrMetadata == "error creating metadata"

\* parseRecordPayload (utils.go)
parseRecordPayload(rec) ==
    IF rec.after = NilData \/ rec.after = EmptyBytes
    THEN [values |-> << >>, sparse_values |-> NoSparseValues, err |-> ErrEmptyPayload]
    ELSE LET parsed == jsonUnmarshal(rec.after)
         IN  [values |-> parsed.values, sparse_values |-> parsed.sparse_values,
              err |-> IF parsed.err THEN ErrUnmarshal ELSE NoError]

\* parsePineconeMetadata (utils.go)
parsePineconeMetadata(rec) ==
    IF structpbNewStructErr(rec.metadata)
    THEN [metadata |-> NoMetadata, err |-> ErrMetadata]
    ELSE [metadata |-> rec.metadata, err |-> NoError]

\* parsePineconeVector of utils.go
utilsParsePineconeVector(rec) ==
    LET payload == parseRecordPayload(rec)
        md == parsePineconeMetadata(rec)
    IN  IF payload.err # NoError THEN [vec |-> NoVector, err |-> payload.err]
        ELSE IF md.err # NoError THEN [vec |-> NoVector, err |-> md.err]
        ELSE [vec |-> [id |-> recordID(rec.key),
                       values |-> payload.values,
                       sparseValues |-> PineconeSparseValues(payload.sparse_values),
                       metadata |-> md.metadata],
              err |-> NoError]

\* one iteration of the loop of buildBatches (utils.go) on record rec: what
\* the locals batches, currUpsertBatch and currDeleteBatch are afterwards
twoAccIteration(bs, cu, cd, rec, isLast) ==
    IF rec.op \in UpsertOperations
    THEN LET vec == utilsParsePineconeVector(rec).vec
             cu1 == [cu EXCEPT !.vectors = Append(@, vec)]
             b1 == IF isLast THEN Append(bs, cu1) ELSE bs
         IN  IF Len(cd.ids) # 0
             THEN [batches |-> Append(b1, cd), currUpsertBatch |-> cu1,
                   currDeleteBatch |-> deleteBatch("")]
             ELSE [batches |-> b1, currUpsertBatch |-> cu1, currDeleteBatch |-> cd]
    ELSE LET id == recordID(rec.key)
             cd1 == [cd EXCEPT !.ids = Append(@, id)]
             b1 == IF isLast THEN Append(bs, cd1) ELSE bs
         IN  IF Len(cu.vectors) # 0
             THEN [batches |-> Append(b1, cu), currUpsertBatch |-> upsertBatch(""),
                   currDeleteBatch |-> cd1]
             ELSE [batches |-> b1, currUpsertBatch |-> cu, currDeleteBatch |-> cd1]

\* buildBatches (utils.go) is called on a record slice
InitTwoAcc ==
    /\ config = EmptyNamespace
    /\ pc = "acc"
    /\ colWriter = "nil"
    /\ namespaceTemplate = FALSE
    /\ index = 0
    /\ indexes = NoIndexes
    /\ conns = << >>
    /\ store = EmptyStore
    /\ store0 = store
    /\ records \in SeqsUpTo(TwoAccRecords, MaxTwoAccLen)
    /\ i = 1
    /\ batches = << >>
    /\ ret = NoRet
    /\ k = 1
    /\ written = 0
    /\ calls = << >>
    /\ result = NoResult
    /\ nCalls = 0
    /\ resolved = {}
    /\ closing = {}
    /\ closed = << >>
    /\ closeFailed = {}
    /\ closeResult = "none"
    /\ prevRet = NoRet
    /\ currUpsertBatch = upsertBatch("")
    /\ currDeleteBatch = deleteBatch("")
    /\ nsLog = {}
    /\ procs = << >>

twoAccFrame == << config, colWriter, namespaceTemplate, index, indexes, conns,
                  store, store0, records, k, written, calls, result, nCalls,
                  resolved, closeVars, prevRet, auxVars >>

\* buildBatches (utils.go): one iteration of the range loop that does not
\* return an error
TwoAccRecord ==
    /\ pc = "acc"
    /\ i <= Len(records)
    /\ records[i].op \in UpsertOperations => utilsParsePineconeVector(records[i]).err = NoError
    /\ LET st == twoAccIteration(batches, currUpsertBatch, currDeleteBatch,
                                 records[i], i = Len(records))
       IN  /\ batches' = st.batches
           /\ currUpsertBatch' = st.currUpsertBatch
           /\ currDeleteBatch' = st.currDeleteBatch
    /\ i' = i + 1
    /\ UNCHANGED << pc, ret, twoAccFrame >>

\* buildBatches (utils.go): parsePineconeVector fails, return nil, err
TwoAccRecordErr ==
    /\ pc = "acc"
    /\ i <= Len(records)
    /\ records[i].op \in UpsertOperations
    /\ utilsParsePineconeVector(records[i]).err # NoError
    /\ ret' = [batches |-> << >>, err |-> "record"]
    /\ pc' = "accDone"
    /\ UNCHANGED << i, batches, accVars, twoAccFrame >>

\* buildBatches (utils.go): the loop is over, return batches, nil
TwoAccReturn ==
    /\ pc = "acc"
    /\ i > Len(records)
    /\ ret' = [batches |-> batches, err |-> "nil"]
    /\ pc' = "accDone"
    /\ UNCHANGED << i, batches, accVars, twoAccFrame >>

NextTwoAcc == TwoAccRecord \/ TwoAccRecordErr \/ TwoAccReturn

SpecTwoAcc == InitTwoAcc /\ [][NextTwoAcc]_vars

(***************************************************************************)
(* The multicollection writer that maps a record without a collection to   *)
(* the namespace "(default)" (batches.go, lines 692-816).                  *)
(***************************************************************************)
defaultNamespace == "(default)"

\* multicollectionWriter.parseNamespace of this writer: a record whose
\* metadata has no collection resolves to defaultNamespace
defaultParseNamespace(tmpl, rec) ==
    IF tmpl THEN TemplateExecute(rec)
    ELSE IF GetCollection(rec.metadata).err
         THEN [ns |-> defaultNamespace, err |-> FALSE]
         ELSE [ns |-> GetCollection(rec.metadata).v, err |-> FALSE]

\* multicollectionWriter.addIndexIfMissing of this writer when newIndex
\* succeeds: Has is asked with the namespace as given, then defaultNamespace
\* is replaced by the empty string, and the connection is opened to and Set
\* under the replaced namespace
defaultAddIndexIfMissing(idx, cs, namespace) ==
    IF namespace \in DOMAIN idx
    THEN [indexes |-> idx, conns |-> cs]
    ELSE LET ns == IF namespace = defaultNamespace THEN "" ELSE namespace
         IN  [indexes |-> (ns :> (Len(cs) + 1)) @@ idx,
              conns |-> Append(cs, ns)]

\* buildBatches of this writer: addIndexIfMissing fails (newIndex)
DefaultBuildIndexErr ==
    /\ InLoop
    /\ colWriter = "multi"
    /\ LET p == defaultParseNamespace(namespaceTemplate, records[i])
       IN  /\ ~p.err
           /\ p.ns \notin DOMAIN indexes
           /\ resolved' = resolved \cup {p.ns}
    /\ ret' = [batches |-> << >>, err |-> "index"]
    /\ pc' = "built"
    /\ UNCHANGED << frame, indexes, conns, i, batches >>

\* buildBatches of this writer: one iteration of the range loop that adds the
\* record to a batch
DefaultBuildRecord ==
    /\ InLoop
    /\ colWriter = "multi"
    /\ LET p == defaultParseNamespace(namespaceTemplate, records[i])
           reg == defaultAddIndexIfMissing(indexes, conns, p.ns)
           r == multiAdd(batches, records[i], p.ns)
       IN  /\ ~p.err
           /\ ~r.err
           /\ ~r.panic
           /\ indexes' = reg.indexes
           /\ conns' = reg.conns
           /\ batches' = r.batches
           /\ resolved' = resolved \cup {p.ns}
    /\ i' = i + 1
    /\ UNCHANGED << frame, ret, pc >>

\* buildBatches of this writer: addRecord fails, return nil, err
DefaultBuildRecordErr ==
    /\ InLoop
    /\ colWriter = "multi"
    /\ LET p == defaultParseNamespace(namespaceTemplate, records[i])
           reg == defaultAddIndexIfMissing(indexes, conns, p.ns)
           r == multiAdd(batches, records[i], p.ns)
       IN  /\ ~p.err
           /\ r.err
           /\ indexes' = reg.indexes
           /\ conns' = reg.conns
           /\ resolved' = resolved \cup {p.ns}
    /\ ret' = [batches |-> << >>, err |-> "record"]
    /\ pc' = "built"
    /\ UNCHANGED << frame, i, batches >>

\* writeRecords of this writer: indexes.Get misses the namespace of batch k,
\* panic("index not found for namespace ...")
WriteBatchPanic ==
    /\ InWriteLoop
    /\ colWriter = "multi"
    /\ ~IndexFound(ret.batches[k])
    /\ pc' = "panic"
    /\ UNCHANGED << wframe, store, k, written, calls, result >>

\* this writer is made by Open under every configuration that gives a
\* multicollection writer
DefaultOpen == Open /\ colWriter' = "multi"

\* several writeRecords calls on this writer
NextDefault ==
    \/ DefaultOpen
    \/ OpenFail
    \/ OpenTemplateErr
    \/ WriteCall
    \/ BuildNamespaceErr
    \/ DefaultBuildIndexErr
    \/ DefaultBuildRecord
    \/ DefaultBuildRecordErr
    \/ BuildReturn
    \/ ReturnBuildErr
    \/ WriteBatch
    \/ WriteBatchErr
    \/ WriteBatchPanic
    \/ WriteReturn

SpecDefault == Init /\ [][NextDefault]_vars

(***************************************************************************)
(* parseNamespace called on the writer directly, between writeRecords      *)
(* calls (TestParseNamespace).                                             *)
(***************************************************************************)
\* the records parseNamespace is called on directly: one without and one with
\* a collection
ResolveRecords ==
    { Rec(OperationCreate, "k1", NoMetadata,          JSONv1),
      Rec(OperationCreate, "k1", WithCollection("a"), JSONv1) }

\* colWriter.parseNamespace(rec): the result is logged in nsLog
ParseNamespaceCall ==
    /\ pc \in {"idle", "done"}
    /\ colWriter = "multi"
    /\ \E rec \in ResolveRecords :
            LET p == parseNamespace(namespaceTemplate, rec)
            IN  nsLog' = nsLog \cup {[rec |-> rec, ns |-> p.ns, err |-> p.err]}
    /\ UNCHANGED << config, pc, colWriter, namespaceTemplate, index, indexes, conns,
                    store, store0, resolved, callVars, closeVars, prevRet, accVars,
                    procs >>

\* writeRecords calls on a writer with direct parseNamespace calls between
\* them
NextResolve ==
    \/ Open
    \/ OpenFail
    \/ OpenTemplateErr
    \/ WriteCall
    \/ BuildNamespaceErr
    \/ BuildIndexErr
    \/ BuildRecord
    \/ BuildRecordErr
    \/ BuildReturn
    \/ ReturnBuildErr
    \/ WriteBatch
    \/ WriteBatchErr
    \/ WriteReturn
    \/ ParseNamespaceCall

SpecResolve == Init /\ [][NextResolve]_vars

(***************************************************************************)
(* Two writeRecords calls on one multicollection writer that interleave:   *)
(* the addIndexIfMissing calls of their buildBatches, step by step on the  *)
(* concurrent map. Has, newIndex and Set are the atomic steps; what else   *)
(* the calls do does not touch the registry.                               *)
(***************************************************************************)
Goroutines == {1, 2}

\* the namespaces the records of the interleaved calls resolve to
ConcNamespaces == {"", "a"}

\* a call that has the namespaces of input to add, one per record
NewCall(input) ==
    [pc |-> "has", input |-> input, todo |-> input, index |-> 0, started |-> FALSE]

InitConcurrent ==
    /\ config = EmptyNamespace
    /\ pc = "concurrent"
    /\ colWriter = "multi"
    /\ namespaceTemplate = FALSE
    /\ index = 0
    /\ indexes = NoIndexes
    /\ conns = << >>
    /\ store = EmptyStore
    /\ store0 = store
    /\ records = << >>
    /\ i = 1
    /\ batches = << >>
    /\ ret = NoRet
    /\ k = 1
    /\ written = 0
    /\ calls = << >>
    /\ result = NoResult
    /\ nCalls = 0
    /\ resolved = {}
    /\ closing = {}
    /\ closed = << >>
    /\ closeFailed = {}
    /\ closeResult = "none"
    /\ prevRet = NoRet
    /\ currUpsertBatch = upsertBatch("")
    /\ currDeleteBatch = deleteBatch("")
    /\ nsLog = {}
    /\ \E run \in [Goroutines -> {NewCall(input) :
                                    input \in SeqsUpTo(ConcNamespaces, MaxConcLen)}] :
            procs = [run |-> run, overlapped |-> FALSE]

concFrame == << config, pc, colWriter, namespaceTemplate, index, store, store0,
                resolved, callVars, closeVars, prevRet, accVars, nsLog >>

\* another call is between its first and its last step
OtherRunning(g) ==
    \E h \in Goroutines \ {g} : procs.run[h].started /\ procs.run[h].pc # "done"

\* goroutine g goes on as p; the step overlaps another call when one is
\* running
Step(g, p) ==
    procs' = [run |-> [procs.run EXCEPT ![g] = [p EXCEPT !.started = TRUE]],
              overlapped |-> procs.overlapped \/ OtherRunning(g)]

\* the call goes to its next record, or returns
NextRecord(p) ==
    [p EXCEPT !.todo = Tail(p.todo),
              !.index = 0,
              !.pc = IF Tail(p.todo) = << >> THEN "done" ELSE "has"]

\* buildBatches of a call without records returns
AddIndexNone(g) ==
    /\ procs.run[g].pc = "has"
    /\ procs.run[g].todo = << >>
    /\ Step(g, [procs.run[g] EXCEPT !.pc = "done"])
    /\ UNCHANGED << concFrame, indexes, conns >>

\* addIndexIfMissing with Has answering false for every namespace
AddIndexHasAlwaysMissing(g) ==
    /\ procs.run[g].pc = "has"
    /\ procs.run[g].todo # << >>
    /\ Step(g, [procs.run[g] EXCEPT !.pc = "newIndex"])
    /\ UNCHANGED << concFrame, indexes, conns >>

\* addIndexIfMissing: w.indexes.Has(namespace); return nil when it is there
AddIndexHas(g) ==
    /\ procs.run[g].pc = "has"
    /\ procs.run[g].todo # << >>
    /\ IF Head(procs.run[g].todo) \in DOMAIN indexes
       THEN Step(g, NextRecord(procs.run[g]))
       ELSE Step(g, [procs.run[g] EXCEPT !.pc = "newIndex"])
    /\ UNCHANGED << concFrame, indexes, conns >>

\* addIndexIfMissing: newIndex opens a connection to the namespace
AddIndexNewIndex(g) ==
    /\ procs.run[g].pc = "newIndex"
    /\ conns' = Append(conns, Head(procs.run[g].todo))
    /\ Step(g, [procs.run[g] EXCEPT !.pc = "set", !.index = Len(conns) + 1])
    /\ UNCHANGED << concFrame, indexes >>

\* addIndexIfMissing: newIndex fails, buildBatches returns the error
AddIndexNewIndexErr(g) ==
    /\ procs.run[g].pc = "newIndex"
    /\ Step(g, [procs.run[g] EXCEPT !.pc = "done"])
    /\ UNCHANGED << concFrame, indexes, conns >>

\* addIndexIfMissing: w.indexes.Set(namespace, index)
AddIndexSet(g) ==
    /\ procs.run[g].pc = "set"
    /\ indexes' = (Head(procs.run[g].todo) :> procs.run[g].index) @@ indexes
    /\ Step(g, NextRecord(procs.run[g]))
    /\ UNCHANGED << concFrame, conns >>

NextConcurrent ==
    \E g \in Goroutines :
        \/ AddIndexNone(g)
        \/ AddIndexHas(g)
        \/ AddIndexNewIndex(g)
        \/ AddIndexNewIndexErr(g)
        \/ AddIndexSet(g)

SpecConcurrent == InitConcurrent /\ [][NextConcurrent]_vars

TypeOK ==
    /\ pc \in {"new", "openFailed", "idle", "build", "built", "done", "close", "closed",
              "panic", "acc", "accDone", "concurrent"}
    /\ colWriter \in {"nil", "single", "multi"}
    /\ written \in Nat

(***************************************************************************)
(* Reference semantics: the records applied one at a time.                 *)
(***************************************************************************)
\* the namespace a record is meant for under the writer's configuration
ResolvedNamespace(rec) ==
    IF colWriter = "single" THEN ConfigString(config)
    ELSE parseNamespace(namespaceTemplate, rec).ns

IsUpsertOp(op) == op \in {OperationCreate, OperationUpdate, OperationSnapshot}

\* the operation category of a record
Category(rec) == IF rec.op = OperationDelete THEN "delete" ELSE "upsert"

ApplyRecord(st, rec) ==
    [st EXCEPT ![ResolvedNamespace(rec)] =
        IF rec.op = OperationDelete THEN Delete(@, rec.key)
        ELSE Upsert(@, parsePineconeVector(rec).vec)]

RECURSIVE ApplyRecords(_, _)
ApplyRecords(st, recs) ==
    IF recs = << >> THEN st ELSE ApplyRecords(ApplyRecord(st, recs[1]), Tail(recs))

RecordKeys(recs) == [j \in 1..Len(recs) |-> recs[j].key]

RECURSIVE FlattenKeys(_)
FlattenKeys(bs) ==
    IF bs = << >> THEN << >> ELSE BatchKeys(bs[1]) \o FlattenKeys(Tail(bs))

RECURSIVE TotalLen(_)
TotalLen(bs) == IF bs = << >> THEN 0 ELSE BatchLen(bs[1]) + TotalLen(Tail(bs))

\* position in the input of element e of batch b of the batch list bs
RecordOf(bs, b, e) == TotalLen(SubSeq(bs, 1, b - 1)) + e

\* the namespace a batch stands for: its namespace field in the
\* multicollection writer, the writer's one connection in the single one
BatchNamespace(b) == IF colWriter = "multi" THEN getNamespace(b) ELSE conns[index]

BuildReturned == pc \in {"built", "done"}
BuildSucceeded == BuildReturned /\ ret.err = "nil"
Returned == pc = "done"

(***************************************************************************)
(* Properties.                                                             *)
(***************************************************************************)
\* C1: when buildBatches (of either writer) returns no error, the keys of
\* the returned batches, concatenated in batch order and in each batch's
\* internal order, are exactly the keys of the input records in input order.
OrderPreservation ==
    BuildSucceeded => FlattenKeys(ret.batches) = RecordKeys(records)

\* C1 witness: three records with two different keys were built into two
\* batches, one of them holding two records.
OrderPreservationWitness ==
    /\ BuildSucceeded
    /\ Len(records) = 3
    /\ Len(ret.batches) = 2
    /\ records[1].key # records[2].key
    /\ BatchLen(ret.batches[1]) = 2

\* C2: when writeRecords returns without error, the store is the store
\* reached from the store at the start of the call by applying the records
\* one at a time in arrival order, each in its resolved namespace.
NetEffectEquivalence ==
    (Returned /\ result.err = "nil") => store = ApplyRecords(store0, records)

\* C2 witness: a successful call whose records touch the same id twice, the
\* last of them a delete, in a store that held the id before the call.
NetEffectWitness ==
    /\ Returned
    /\ result.err = "nil"
    /\ Len(records) = 3
    /\ records[1].key = records[3].key
    /\ ResolvedNamespace(records[1]) = ResolvedNamespace(records[3])
    /\ IsUpsertOp(records[1].op)
    /\ records[3].op = OperationDelete
    /\ store0 = OldStore
    /\ store # store0

\* C3: every batch of a returned batch list is non-empty, and each of its
\* elements comes from a record that resolves to the batch's namespace and
\* has the batch's operation category.
Homogeneity ==
    BuildReturned =>
        \A b \in 1..Len(ret.batches) :
            /\ BatchLen(ret.batches[b]) > 0
            /\ ret.batches[b].kind = "upsert" => ret.batches[b].ids = << >>
            /\ ret.batches[b].kind = "delete" => ret.batches[b].vectors = << >>
            /\ \A e \in 1..BatchLen(ret.batches[b]) :
                LET rec == records[RecordOf(ret.batches, b, e)]
                IN  /\ ResolvedNamespace(rec) = BatchNamespace(ret.batches[b])
                    /\ Category(rec) = ret.batches[b].kind

\* C3 witness: a returned batch list with an upsert batch of two records
\* with different operations and a delete batch in another namespace.
HomogeneityWitness ==
    /\ BuildSucceeded
    /\ colWriter = "multi"
    /\ Len(ret.batches) = 2
    /\ ret.batches[1].kind = "upsert"
    /\ BatchLen(ret.batches[1]) = 2
    /\ records[1].op # records[2].op
    /\ ret.batches[2].kind = "delete"
    /\ getNamespace(ret.batches[2]) # getNamespace(ret.batches[1])

\* C4: no two adjacent batches of a returned batch list have both the same
\* namespace and the same operation category.
Maximality ==
    BuildReturned =>
        \A b \in 1..(Len(ret.batches) - 1) :
            \/ getNamespace(ret.batches[b]) # getNamespace(ret.batches[b + 1])
            \/ ret.batches[b].kind # ret.batches[b + 1].kind

\* C4 witness: two compatible records were merged into one batch after a
\* batch of the other category.
MaximalityWitness ==
    /\ BuildSucceeded
    /\ Len(records) = 3
    /\ Len(ret.batches) = 2
    /\ BatchLen(ret.batches[2]) = 2

\* C5: the bulk calls of one writeRecords are issued in batch order, one
\* call per batch, and a call is followed by another one only when it
\* returned without error.
SequentialWrites ==
    \A j \in 1..Len(calls) :
        /\ calls[j].batch = j
        /\ j < Len(calls) => calls[j].ok

\* C5 witness: three batches were written by three bulk calls.
SequentialWritesWitness ==
    /\ Returned
    /\ Len(ret.batches) = 3
    /\ Len(calls) = 3
    /\ calls[3].ok

\* C6: once a bulk call has failed, writeRecords has returned an error and
\* the failed call is the last bulk call of the writeRecords call.
FailFast ==
    \A j \in 1..Len(calls) :
        ~calls[j].ok => /\ Returned
                        /\ result.err = "write"
                        /\ Len(calls) = j

\* C6 witness: the first bulk call failed and a batch for another namespace
\* was left unwritten.
FailFastWitness ==
    /\ Returned
    /\ colWriter = "multi"
    /\ Len(calls) = 1
    /\ ~calls[1].ok
    /\ Len(ret.batches) >= 2
    /\ getNamespace(ret.batches[2]) # getNamespace(ret.batches[1])

\* the batches whose bulk call succeeded
WrittenBatches == SubSeq(ret.batches, 1, Cardinality({j \in 1..Len(calls) : calls[j].ok}))

\* C7: when writeRecords returns (n, err) after a failed bulk call, n is the
\* number of records of the batches written before, these are the first n
\* records of the input, and the store holds their effect.
PartialCount ==
    (Returned /\ result.err = "write") =>
        /\ result.n = TotalLen(WrittenBatches)
        /\ FlattenKeys(WrittenBatches) = RecordKeys(SubSeq(records, 1, result.n))
        /\ store = ApplyRecords(store0, SubSeq(records, 1, result.n))

\* C7 witness: the second bulk call failed after a first batch of two
\* records changed the store.
PartialCountWitness ==
    /\ Returned
    /\ result.err = "write"
    /\ result.n = 2
    /\ Len(calls) = 2
    /\ store # store0

\* C8: when writeRecords returns without error, the written count equals
\* the number of input records.
CountConservation ==
    (Returned /\ result.err = "nil") => result.n = Len(records)

\* C8 witness: a successful call with upsert and delete batches.
CountConservationWitness ==
    /\ Returned
    /\ result.err = "nil"
    /\ Len(records) = 3
    /\ \E b \in 1..Len(ret.batches) : ret.batches[b].kind = "delete"
    /\ \E b \in 1..Len(ret.batches) : ret.batches[b].kind = "upsert"

\* C9 as stated: when the connection of a namespace cannot be created, the
\* batches built before it have been written and their count is returned.
ConnectionFailureLikeBulkFailure ==
    (Returned /\ result.err = "index") =>
        /\ Len(calls) = Len(batches)
        /\ \A j \in 1..Len(calls) : calls[j].ok
        /\ result.n = TotalLen(batches)

\* C9 amended: when the connection of a namespace cannot be created,
\* writeRecords returns the count 0 with the error, no bulk call was issued
\* and the store is unchanged, whatever batches were built before.
ConnectionFailureWritesNothing ==
    (Returned /\ result.err = "index") =>
        /\ result.n = 0
        /\ calls = << >>
        /\ store = store0

\* C9 witness: the connection failed after a batch for another namespace
\* was built.
ConnectionFailureWitness ==
    /\ Returned
    /\ result.err = "index"
    /\ Len(batches) >= 1
    /\ i = 2

\* the namespaces of the connections opened so far
OpenedNamespaces == {conns[c] : c \in 1..Len(conns)}

\* C10, first part: at most one connection is opened per namespace, and a
\* registry entry is the connection opened for its namespace.
OneConnectionPerNamespace ==
    /\ \A c, d \in 1..Len(conns) : conns[c] = conns[d] => c = d
    /\ \A ns \in DOMAIN indexes : conns[indexes[ns]] = ns

\* C10, last part: a step never removes or replaces a registry entry, and
\* never opens a connection for a namespace the registry holds.
CachedIndexKept ==
    /\ \A ns \in DOMAIN indexes : ns \in DOMAIN indexes' /\ indexes'[ns] = indexes[ns]
    /\ \A c \in (Len(conns) + 1)..Len(conns') : conns'[c] \notin DOMAIN indexes

\* C10 as stated: at most one connection is opened per namespace and, after
\* a successful buildBatches, the registry holds one entry per namespace
\* resolved so far.
RegistryHoldsResolved ==
    /\ OneConnectionPerNamespace
    /\ (BuildSucceeded /\ colWriter = "multi") => DOMAIN indexes = resolved

\* C10 amended: after a successful buildBatches the registry holds one entry
\* per namespace whose connection was opened so far, among them every
\* namespace of the records of the call.
RegistryHoldsOpened ==
    (BuildSucceeded /\ colWriter = "multi") =>
        /\ DOMAIN indexes = OpenedNamespaces
        /\ DOMAIN indexes \subseteq resolved
        /\ \A j \in 1..Len(records) : ResolvedNamespace(records[j]) \in DOMAIN indexes

\* C10 amended, all parts.
RegistryIdempotence ==
    /\ [](OneConnectionPerNamespace /\ RegistryHoldsOpened)
    /\ [][CachedIndexKept]_vars

\* C10 witness: the second call on a writer was built from the cache, for
\* a namespace the first call connected to.
RegistryIdempotenceWitness ==
    /\ BuildSucceeded
    /\ colWriter = "multi"
    /\ nCalls = 2
    /\ Len(records) = 2
    /\ Len(conns) = 1
    /\ DOMAIN indexes = {"a"}

\* a close call has returned
Closed == pc = "closed"

\* C11: a close of the multicollection writer calls Close on every
\* connection of the registry exactly once (never twice while it runs), also
\* on the ones visited after a Close that failed, and returns an error
\* exactly when at least one Close failed.
CloseAll ==
    colWriter = "multi" =>
        /\ pc \in {"close", "closed"} =>
                \A c \in 1..Len(conns) : closed[c] <= 1
        /\ Closed =>
                /\ \A ns \in DOMAIN indexes : closed[indexes[ns]] = 1
                /\ closeResult = "err" <=> closeFailed # {}
                /\ closeResult = "nil" <=> closeFailed = {}

\* C11 witness: a close over a registry of two connections returned an
\* error after the Close of both failed, so one was made after a failure.
CloseAllWitness ==
    /\ Closed
    /\ colWriter = "multi"
    /\ Cardinality(DOMAIN indexes) = 2
    /\ Cardinality(closeFailed) = 2
    /\ closeResult = "err"

\* C12: every connection a multicollection writer has opened is in the
\* registry at any time, whatever way its writeRecords calls ended, and when
\* the close that follows them has returned, Close was called exactly once
\* on each of them.
NoConnectionLeak ==
    colWriter = "multi" =>
        /\ \A c \in 1..Len(conns) : \E ns \in DOMAIN indexes : indexes[ns] = c
        /\ Closed => \A c \in 1..Len(conns) : closed[c] = 1

\* C12 witness: close returned after two writeRecords calls, the last of
\* which opened a second connection and then failed on parsing its record.
NoConnectionLeakWitness ==
    /\ Closed
    /\ colWriter = "multi"
    /\ nCalls = 2
    /\ result.err = "record"
    /\ Len(conns) = 2
    /\ \A c \in 1..Len(conns) : closed[c] = 1

\* buildBatches returned because a record failed to parse
ParseFailed == BuildReturned /\ ret.err = "record"

\* C13 as stated: when the record at position i fails to parse, buildBatches
\* of either writer returns, with the error, the batches built from the
\* records before i, and the failing record is in none of them.
PartialBatchesReturned ==
    ParseFailed =>
        /\ ret.batches = batches
        /\ FlattenKeys(ret.batches) = RecordKeys(SubSeq(records, 1, i - 1))

\* C13 amended: when the record at position i fails to parse, the single
\* collection writer's buildBatches returns, with the error, the batches
\* built from the records before i; the multicollection writer's returns no
\* batch at all. The failing record is in no returned batch.
PartialBatchesOnlySingle ==
    ParseFailed =>
        /\ colWriter = "single" =>
                /\ ret.batches = batches
                /\ FlattenKeys(ret.batches) = RecordKeys(SubSeq(records, 1, i - 1))
        /\ colWriter = "multi" => ret.batches = << >>
        /\ TotalLen(ret.batches) < i

\* C13 witness: the multicollection writer had built a batch when the
\* second record failed to parse.
PartialBatchesWitness ==
    /\ ParseFailed
    /\ colWriter = "multi"
    /\ i = 2
    /\ Len(batches) = 1
    /\ ret.batches = << >>

\* a record that is not a delete and has a nil or zero-length Payload.After
EmptyPayloadRecord(rec) ==
    rec.op # OperationDelete /\ rec.after \in {NilData, EmptyBytes}

\* the error the claim names for such a record
EmptyPayload == "empty payload"

\* buildBatches stopped in the addRecord of records[i]
StoppedInAddRecord == pc = "panic" \/ ParseFailed

\* C14 as stated: when buildBatches reaches a record that is not a delete
\* and has a nil or zero-length payload, it returns an error, the error
\* parsePineconeVector gave is the EmptyPayload error and not the one of a
\* malformed payload, and for an input of that one record no batch is
\* returned.
EmptyPayloadError ==
    (StoppedInAddRecord /\ EmptyPayloadRecord(records[i])) =>
        /\ ParseFailed
        /\ parsePineconeVector(records[i]).cause = EmptyPayload
        /\ parsePineconeVector(records[i]).cause # ParseJSONError
        /\ Len(records) = 1 => ret.batches = << >>

\* C15 as stated: the sparse component of every vector buildBatches has
\* put in a batch is the nil sentinel when the decoded payload of its record
\* has no sparse values or two empty sparse arrays, and is present exactly
\* when at least one of the two arrays is non-empty.
SparseAbsentWhenEmpty ==
    \A b \in 1..Len(batches) :
        \A e \in 1..Len(batches[b].vectors) :
            LET sv == jsonUnmarshal(records[RecordOf(batches, b, e)].after).sparse_values
                vec == batches[b].vectors[e]
            IN  /\ vec.sparseValues.present <=> (Len(sv.indices) > 0 \/ Len(sv.values) > 0)
                /\ vec.sparseValues = PineconeSparseValues(sv)

\* the positions of the records on which the namespace template fails
TemplateFailures == {j \in 1..Len(records) : TemplateExecute(records[j]).err}

\* C16: in templated mode, when the template fails on some record of the
\* input, the loop of buildBatches never gets past the first such record,
\* no bulk call is issued and the store stays as it was, and writeRecords
\* returns an error with the count 0; the error is the template's when
\* the records before it were batched.
TemplateFailureAbortsCall ==
    (namespaceTemplate /\ TemplateFailures # {}) =>
        /\ \A j \in TemplateFailures : i <= j
        /\ calls = << >>
        /\ store = store0
        /\ Returned =>
                /\ result.n = 0
                /\ result.err # "nil"
                /\ i \in TemplateFailures => result.err = "namespace"

\* C16 witness: the template failed on the third record after two records
\* were put in a batch; the call returned the error and wrote nothing.
TemplateFailureWitness ==
    /\ Returned
    /\ namespaceTemplate
    /\ result.err = "namespace"
    /\ i = 3
    /\ TotalLen(batches) = 2
    /\ calls = << >>
    /\ result.n = 0

\* the writer resolves the namespace from the record's metadata
PerRecordMode == colWriter = "multi" /\ ~namespaceTemplate

\* C17: in per-record mode parseNamespace gives, without error, the value of
\* the collection key of the record's metadata, or the empty namespace when
\* the key is missing; the call never fails on namespace resolution, a
\* record without the key is put in a batch of the empty namespace, and
\* every bulk call goes to the connection of its batch's namespace.
PerRecordNamespace ==
    PerRecordMode =>
        /\ \A j \in 1..Len(records) :
                LET p == parseNamespace(namespaceTemplate, records[j])
                    md == records[j].metadata
                IN  /\ ~p.err
                    /\ p.ns = IF MetadataCollection \in DOMAIN md
                              THEN md[MetadataCollection] ELSE ""
        /\ ret.err # "namespace"
        /\ result.err # "namespace"
        /\ \A b \in 1..Len(batches) : \A e \in 1..BatchLen(batches[b]) :
                MetadataCollection \notin DOMAIN records[RecordOf(batches, b, e)].metadata
                    => getNamespace(batches[b]) = ""
        /\ \A j \in 1..Len(calls) :
                LET b == ret.batches[calls[j].batch]
                IN  conns[indexes[getNamespace(b)]] = getNamespace(b)

\* C17 witness: a call in per-record mode, with a record naming collection
\* "a" and a record without the key, returned without error and changed
\* the empty namespace of the store.
PerRecordNamespaceWitness ==
    /\ PerRecordMode
    /\ Returned
    /\ result.err = "nil"
    /\ Len(records) = 2
    /\ MetadataCollection \in DOMAIN records[1].metadata
    /\ MetadataCollection \notin DOMAIN records[2].metadata
    /\ getNamespace(ret.batches[2]) = ""
    /\ store[""] # store0[""]

\* the configured namespace holds both template delimiters
HasDelimiters(s) ==
    /\ \E a \in 1..Len(s) : s[a] = "{{"
    /\ \E b \in 1..Len(s) : s[b] = "}}"

\* Open has returned without error
Opened == pc \notin {"new", "openFailed"}

\* C18: a destination whose Open returned without error has exactly the
\* writer its namespace string selects: a multicollection writer with a
\* template when the string holds both delimiters, one without template
\* when it is empty, a single collection writer on one connection to the
\* configured namespace otherwise. Right after Open a multicollection
\* writer has no connection, and a destination that is not opened has no
\* writer and no connection.
ModeSelection ==
    /\ ~(HasDelimiters(config) /\ config = EmptyNamespace)
    /\ Opened =>
            IF HasDelimiters(config)
            THEN colWriter = "multi" /\ namespaceTemplate /\ index = 0
            ELSE IF config = EmptyNamespace
            THEN colWriter = "multi" /\ ~namespaceTemplate /\ index = 0
            ELSE /\ colWriter = "single"
                 /\ index = 1
                 /\ conns[index] = ConfigString(config)
                 /\ indexes = NoIndexes
    /\ (pc = "idle" /\ nCalls = 0 /\ colWriter = "multi") =>
            conns = << >> /\ indexes = NoIndexes
    /\ ~Opened => colWriter = "nil" /\ conns = << >>

\* C18 witness: a namespace string with only one of the two delimiters was
\* opened as a static namespace, with its connection.
ModeSelectionWitness ==
    /\ pc = "idle"
    /\ nCalls = 0
    /\ config = BraceNamespace
    /\ colWriter = "single"
    /\ conns = << "{{" >>

\* the writer has one connection, to the configured namespace
StaticMode == colWriter = "single"

\* the batch of the batch list bs that holds the record at position j
BatchOf(bs, j) ==
    CHOOSE b \in 1..Len(bs) :
        /\ TotalLen(SubSeq(bs, 1, b - 1)) < j
        /\ j <= TotalLen(SubSeq(bs, 1, b))

\* C19: in static mode the one connection opened by Open, to the configured
\* namespace, is the only connection at any time; every call changes the
\* store in that namespace only, whatever collection the metadata of its
\* records names; and two consecutive records of the same operation
\* category are in the same batch, also when their collections differ.
StaticModeOneConnection ==
    StaticMode =>
        /\ Len(conns) = 1
        /\ index = 1
        /\ conns[index] = ConfigString(config)
        /\ indexes = NoIndexes
        /\ \A ns \in StoreNamespaces \ {ConfigString(config)} : store[ns] = store0[ns]
        /\ \A j \in 1..(TotalLen(batches) - 1) :
                Category(records[j]) = Category(records[j + 1])
                    => BatchOf(batches, j) = BatchOf(batches, j + 1)

\* C19 witness: the second call on a static writer put a record without
\* collection and a record of collection "a" in one batch and wrote it to
\* the configured namespace.
StaticModeWitness ==
    /\ StaticMode
    /\ nCalls = 2
    /\ Returned
    /\ result.err = "nil"
    /\ Len(records) = 2
    /\ GetCollection(records[1].metadata).err
    /\ GetCollection(records[2].metadata).v = "a"
    /\ Len(ret.batches) = 1
    /\ store[ConfigString(config)] # store0[ConfigString(config)]
    /\ store["a"] = store0["a"]

\* the batches the loop of buildBatches makes of the records recs, starting
\* from the batches bs, under the writer's configuration
RECURSIVE BatchesFrom(_, _)
BatchesFrom(bs, recs) ==
    IF recs = << >> THEN bs
    ELSE LET rec == Head(recs)
             r == IF colWriter = "multi"
                  THEN multiAdd(bs, rec, parseNamespace(namespaceTemplate, rec).ns)
                  ELSE singleAdd(bs, rec)
         IN  BatchesFrom(r.batches, Tail(recs))

\* buildBatches of the repeated call has returned
RebuildReturned == nCalls = 2 /\ BuildReturned

\* C20 as stated: buildBatches run a second time on the same records with
\* the same configuration returns the batch sequence the first run
\* returned, whatever the registry held at either run.
IdempotentRebatching ==
    RebuildReturned => ret.batches = prevRet.batches

\* C20 amended: a buildBatches that returns without error returns the
\* batches that are a function of the records and the configuration alone;
\* a second run on the same records returns what the first run returned
\* unless the first run failed to create a connection, and fails to create
\* a connection only if the first run did.
RebatchingUpToConnections ==
    /\ BuildSucceeded => ret.batches = BatchesFrom(<< >>, records)
    /\ (RebuildReturned /\ prevRet.err # "index") => ret = prevRet
    /\ (RebuildReturned /\ ret.err = "index") => prevRet.err = "index"

\* C20 witness: the second run, on a registry the first run filled with two
\* connections, returned the same two batches as the first.
RebatchingWitness ==
    /\ RebuildReturned
    /\ colWriter = "multi"
    /\ prevRet.err = "nil"
    /\ Len(prevRet.batches) = 2
    /\ Len(conns) = 2
    /\ ret = prevRet

\* the positions j of recs where record j + 1 starts a new maximal run: it
\* differs from record j in resolved namespace or in operation category
RunBreaks(recs) ==
    {j \in 1..(Len(recs) - 1) :
        \/ ResolvedNamespace(recs[j]) # ResolvedNamespace(recs[j + 1])
        \/ Category(recs[j]) # Category(recs[j + 1])}

\* the number of maximal runs of recs
Runs(recs) == IF recs = << >> THEN 0 ELSE 1 + Cardinality(RunBreaks(recs))

\* C21: when buildBatches returns without error, the number of returned
\* batches is the number of maximal runs of the input: 0 for the empty
\* input, otherwise 1 plus the number of adjacent record pairs that differ
\* in resolved namespace or in operation category.
BatchCount ==
    BuildSucceeded => Len(ret.batches) = Runs(records)

\* C21 witness: three upsert records resolving to the namespaces a, "", a
\* gave three batches, the category never changing.
BatchCountWitness ==
    /\ BuildSucceeded
    /\ colWriter = "multi"
    /\ Len(records) = 3
    /\ \A j \in 1..3 : Category(records[j]) = "upsert"
    /\ ResolvedNamespace(records[1]) = ResolvedNamespace(records[3])
    /\ ResolvedNamespace(records[1]) # ResolvedNamespace(records[2])
    /\ Len(ret.batches) = 3

\* the first writeRecords call of the writer was given no record
EmptyCall == nCalls = 1 /\ records = << >>

\* C22: for an empty input buildBatches returns no batch and no error and
\* writeRecords returns the count 0 and no error; no bulk call is issued,
\* the store is unchanged and no connection is opened (a multicollection
\* writer still has none, a single collection writer only the one of Open).
EmptyInput ==
    EmptyCall =>
        /\ BuildReturned => ret = [batches |-> << >>, err |-> "nil"]
        /\ Returned => result = [n |-> 0, err |-> "nil"]
        /\ calls = << >>
        /\ store = store0
        /\ colWriter = "multi" => conns = << >> /\ indexes = NoIndexes
        /\ colWriter = "single" => Len(conns) = 1

\* C22 witness: writeRecords of a multicollection writer returned from a
\* call without records.
EmptyInputWitness ==
    /\ EmptyCall
    /\ Returned
    /\ colWriter = "multi"
    /\ result.n = 0
    /\ conns = << >>

\* the vectors with id key in namespace ns of the store st
VectorsWithID(st, ns, key) == {v \in st[ns] : v.id = key}

\* writeRecords returned without error from a call with the one record of
\* an operation that is not a delete
WroteOne ==
    /\ nCalls = 1
    /\ Returned
    /\ result.err = "nil"
    /\ Len(records) = 1
    /\ records[1].op \in {OperationCreate, OperationUpdate, OperationSnapshot}

\* writeRecords returned without error from the delete that followed
DeletedOne == nCalls = 2 /\ Returned /\ result.err = "nil"

\* C23: after a successful write of one Create, Update or Snapshot record
\* the store holds, in the record's namespace, exactly one vector with the
\* record's key as id, and it has the values of the payload; after the
\* successful write of the Delete record of that key that follows, the
\* store, which held the vector before, holds no vector with that id and
\* is otherwise unchanged.
WriteThenDelete ==
    /\ WroteOne =>
            LET rec == records[1]
                vs == VectorsWithID(store, ResolvedNamespace(rec), rec.key)
            IN  /\ Cardinality(vs) = 1
                /\ \A v \in vs : v.values = jsonUnmarshal(rec.after).values
    /\ DeletedOne =>
            LET rec == records[1]
                ns == ResolvedNamespace(rec)
            IN  /\ prevRet.batches[1].vectors[1] \in store0[ns]
                /\ prevRet.batches[1].vectors[1].id = rec.key
                /\ VectorsWithID(store, ns, rec.key) = {}
                /\ store = [store0 EXCEPT ![ns] = @ \ VectorsWithID(store0, ns, rec.key)]

\* C23 witness: the snapshot record of key k2 was written to a store that
\* held other vectors, and the delete that followed removed its vector.
WriteThenDeleteWitness ==
    /\ DeletedOne
    /\ prevRet.batches[1].vectors[1].id = "k2"
    /\ prevRet.batches[1].vectors[1] \in store0[ResolvedNamespace(records[1])]
    /\ VectorsWithID(store, ResolvedNamespace(records[1]), "k2") = {}
    /\ store[ResolvedNamespace(records[1])] # {}

\* Teardown was called
TeardownCalled == pc \in {"close", "closed", "panic"}

\* C24 as stated: a Teardown called on a destination that was never opened
\* does not panic and returns no error.
TeardownNoOpenReturnsNil ==
    (TeardownCalled /\ colWriter = "nil") =>
        /\ pc # "panic"
        /\ closeResult # "err"

CategoryRuns(recs) ==
    IF recs = << >> THEN 0
    ELSE 1 + Cardinality({j \in 1..(Len(recs) - 1) :
                            Category(recs[j]) # Category(recs[j + 1])})

TwoAccReturned == pc = "accDone" /\ ret.err = "nil"

\* C26: when the two-accumulator buildBatches returns without error, the
\* returned batches concatenated give the keys of the input records in input
\* order, and there is one batch per maximal run of one operation category
TwoAccSequential ==
    TwoAccReturned =>
        /\ FlattenKeys(ret.batches) = RecordKeys(records)
        /\ Len(ret.batches) = CategoryRuns(records)

\* batch b2 is batch b1 with one more element at its end, the one of rec
ExtendsWith(b2, b1, rec) ==
    /\ b2.kind = b1.kind
    /\ b2.namespace = b1.namespace
    /\ Len(b2.vectors) + Len(b2.ids) = Len(b1.vectors) + Len(b1.ids) + 1
    /\ SubSeq(b2.vectors, 1, Len(b1.vectors)) = b1.vectors
    /\ SubSeq(b2.ids, 1, Len(b1.ids)) = b1.ids
    /\ BatchKeys(b2)[BatchLen(b2)] = rec.key
    /\ b2.kind = Category(rec)

\* the step of buildBatches on record i added it to the last batch
AppendedToLast ==
    /\ batches # << >>
    /\ Len(batches') = Len(batches)
    /\ \A j \in 1..(Len(batches) - 1) : batches'[j] = batches[j]
    /\ ExtendsWith(batches'[Len(batches)], batches[Len(batches)], records[i])

\* the step of buildBatches on record i added one new batch holding only it
AppendedNewBatch ==
    /\ Len(batches') = Len(batches) + 1
    /\ \A j \in 1..Len(batches) : batches'[j] = batches[j]
    /\ BatchKeys(batches'[Len(batches')]) = << records[i].key >>
    /\ batches'[Len(batches')].kind = Category(records[i])

\* C27: while buildBatches runs, a step either leaves the batch list as it
\* is, or handles record i by appending it to the last batch or by appending
\* one new batch holding only record i; every other batch stays as it was
BatchesOnlyGrow ==
    [][pc = "build" =>
         \/ batches' = batches
         \/ /\ i' = i + 1
            /\ AppendedToLast \/ AppendedNewBatch]_vars

BatchesOnlyGrowWitness ==
    /\ pc = "build"
    /\ Len(batches) = 2
    /\ BatchLen(batches[2]) = 2

\* buildBatches cannot batch the record: its namespace cannot be resolved or
\* its payload cannot be parsed
RecordFails(rec) ==
    \/ colWriter = "multi" /\ parseNamespace(namespaceTemplate, rec).err
    \/ rec.op # OperationDelete /\ parsePineconeVector(rec).err

\* the input of the running call has a record that cannot be batched
SomeRecordFails ==
    /\ pc \in {"build", "built", "done"}
    /\ \E j \in 1..Len(records) : RecordFails(records[j])

\* C28: a bulk call is issued only after buildBatches has consumed every
\* record and returned without error; when a record at any position fails
\* (payload, namespace, or the connection of its namespace), no bulk call is
\* issued, the store stays as it was, and writeRecords returns the count 0
\* with an error
NoBulkCallBeforeBuilt ==
    /\ calls # << >> => (BuildSucceeded /\ i > Len(records))
    /\ SomeRecordFails => (calls = << >> /\ store = store0 /\ written = 0)
    /\ (Returned /\ (SomeRecordFails \/ ret.err # "nil")) =>
            /\ result.n = 0
            /\ result.err # "nil"
            /\ calls = << >>
            /\ store = store0

\* C28 witness: the call returned after two valid records and a third one
\* that fails
NoBulkCallBeforeBuiltWitness ==
    /\ Returned
    /\ Len(records) = 3
    /\ ~RecordFails(records[1])
    /\ ~RecordFails(records[2])
    /\ RecordFails(records[3])
    /\ i = 3
    /\ result.n = 0
    /\ store = store0

\* the input of the running call is made of delete records only
OnlyDeletes ==
    /\ pc \in {"build", "built", "done", "panic"}
    /\ records # << >>
    /\ \A j \in 1..Len(records) : records[j].op = OperationDelete

\* C29: on an input of delete records only, whatever their payloads,
\* buildBatches neither panics nor returns a parse error, the batches under
\* construction are delete batches holding the keys of the records handled so
\* far, and on success every record has given exactly its key as one id
DeleteNeverParsed ==
    OnlyDeletes =>
        /\ pc # "panic"
        /\ ret.err # "record"
        /\ \A b \in 1..Len(batches) :
                batches[b].kind = "delete" /\ batches[b].vectors = << >>
        /\ pc = "build" => FlattenKeys(batches) = RecordKeys(SubSeq(records, 1, i - 1))
        /\ BuildSucceeded =>
                /\ FlattenKeys(ret.batches) = RecordKeys(records)
                /\ TotalLen(ret.batches) = Len(records)
                /\ \A b \in 1..Len(ret.batches) : ret.batches[b].kind = "delete"

\* C29 witness: buildBatches returned the batches of a delete with a
\* malformed payload followed by a delete with a nil payload
DeleteNeverParsedWitness ==
    /\ OnlyDeletes
    /\ BuildSucceeded
    /\ Len(records) = 2
    /\ records[1].after = NotJSON
    /\ records[2].after = NilData
    /\ FlattenKeys(ret.batches) = << records[1].key, records[2].key >>

\* the registry holds, under the namespace of batch b, a connection to that
\* namespace
RegistryHolds(b) ==
    /\ getNamespace(b) \in DOMAIN indexes
    /\ indexes[getNamespace(b)] \in 1..Len(conns)
    /\ conns[indexes[getNamespace(b)]] = getNamespace(b)

\* C30: in the multicollection writer, every batch buildBatches has built or
\* returned has its connection in the registry under exactly its namespace,
\* so the lookup of writeRecords finds it for every batch it is about to
\* write, in the first call and in later calls on the same writer
IndexNotFoundUnreachable ==
    colWriter = "multi" =>
        /\ pc = "build" => \A b \in 1..Len(batches) : RegistryHolds(batches[b])
        /\ BuildSucceeded => \A b \in 1..Len(ret.batches) : RegistryHolds(ret.batches[b])
        /\ InWriteLoop => IndexFound(ret.batches[k])

\* C30 witness: the second call on a writer is about to write its second
\* batch, of the empty namespace, with two namespaces in the registry
IndexNotFoundUnreachableWitness ==
    /\ colWriter = "multi"
    /\ nCalls = 2
    /\ InWriteLoop
    /\ k = 2
    /\ getNamespace(ret.batches[k]) = ""
    /\ Cardinality(DOMAIN indexes) = 2
    /\ IndexFound(ret.batches[k])

\* the connections opened to namespace ns
ConnectionsTo(ns) == {c \in 1..Len(conns) : conns[c] = ns}

\* C31: in the writer that resolves a record without a collection to
\* "(default)", the lookup of writeRecords finds the connection of every
\* batch it is about to write, the panic is never reached, and at most one
\* connection to the default (empty) namespace is opened
DefaultLikeAnyNamespace ==
    colWriter = "multi" =>
        /\ pc # "panic"
        /\ InWriteLoop => IndexFound(ret.batches[k])
        /\ Cardinality(ConnectionsTo("")) <= 1

\* every logged result of parseNamespace is the only one logged for its
\* record, and is what parseNamespace gives for the record now
SameRecordSameNamespace ==
    /\ \A e1, e2 \in nsLog : e1.rec = e2.rec => e1 = e2
    /\ \A e \in nsLog :
            parseNamespace(namespaceTemplate, e.rec) = [ns |-> e.ns, err |-> e.err]

\* a step that is a direct call of parseNamespace leaves the registry, the
\* opened connections, the store and the configuration as they are
ParseNamespaceFrame ==
    nsLog' # nsLog =>
        UNCHANGED << indexes, conns, store, config, namespaceTemplate, colWriter,
                     index, resolved >>

Concurrent == pc = "concurrent"

\* the connections a goroutine has opened and not yet handed to Set
InFlight == {procs.run[g].index : g \in {h \in Goroutines : procs.run[h].pc = "set"}}

\* the opened connections that are neither in the registry nor about to be
\* Set: close will never reach them
Overwritten == (1..Len(conns)) \ (IterBuffered(indexes) \cup InFlight)

\* C33 as stated: with interleaved calls, no namespace gets more than one
\* connection and no cached connection is overwritten by another one.
OneConnectionWhenInterleaved ==
    Concurrent =>
        /\ \A ns \in ConcNamespaces : Cardinality(ConnectionsTo(ns)) <= 1
        /\ Overwritten = {}

\* C33 amended: as long as the calls do not overlap, no namespace gets more
\* than one connection and no cached connection is overwritten; when they
\* overlap a namespace gets at most one connection per call, and the registry
\* still maps every namespace it has to a connection opened to that namespace
OneConnectionWhenSerialized ==
    Concurrent =>
        /\ ~procs.overlapped =>
                /\ \A ns \in ConcNamespaces : Cardinality(ConnectionsTo(ns)) <= 1
                /\ Overwritten = {}
        /\ \A ns \in ConcNamespaces :
                Cardinality(ConnectionsTo(ns)) <= Cardinality(Goroutines)
        /\ \A ns \in DOMAIN indexes :
                indexes[ns] \in 1..Len(conns) /\ conns[indexes[ns]] = ns

\* C33 witness: two calls for the same two namespaces ran one after the
\* other and returned, and each namespace has its one connection
OneConnectionWhenSerializedWitness ==
    /\ Concurrent
    /\ ~procs.overlapped
    /\ \A g \in Goroutines :
            /\ procs.run[g].pc = "done"
            /\ procs.run[g].input = << "a", "" >>
            /\ procs.run[g].todo = << >>
    /\ Len(conns) = 2
    /\ DOMAIN indexes = {"", "a"}

====
